---- MODULE Spec2Model ----
(***************************************************************************)
(* Sam-PPT: reverse image search -> ranked candidates -> scraped page      *)
(* summaries.  The model covers the Result Ranker (src/src/image_search.py)*)
(* and the Content Extractor / Scrape Orchestrator (src/src/web_scraper.py)*)
(* Python strings are TLA+ strings; Python dicts are records whose DOMAIN  *)
(* is the set of keys that are present.                                    *)
(***************************************************************************)
EXTENDS Integers, Sequences, FiniteSets, TLC

VARIABLES
    \* ---- _is_valid_result_url called on its own ----
    f_pc,               \* "call" | "ret"
    f_url,              \* argument url
    f_seen,             \* argument seen_domains
    f_ret,              \* returned bool
    \* ---- _parse_serpapi_lens_results (rank) ----
    r_pc,               \* "idle" | "call" | "ret" | "raised"
    data,               \* argument data (raw provider response)
    num_results,        \* argument num_results (desiredCount)
    seen_domains,       \* local seen_domains of the most recent call
    shopping_results,   \* local shopping_results of the most recent call
    other_results,      \* local other_results of the most recent call
    r_ret,              \* returned list
    r_kept,             \* << >> or << an earlier call [data, num_results, ret] >>
    \* ---- search_by_image ----
    s_pc,               \* "idle" | "start" | "lens_upload" | "lens_get" |
                        \* "rev_upload" | "rev_get" | "done" | "raised"
    s_n,                \* argument num_results
    s_api_key,          \* self.api_key is not empty
    s_results,          \* local results
    s_parsed,           \* last parser call: [engine, n, out]
    s_ret,              \* returned list
    s_calls,            \* requests sent so far, in order, each
                        \* [attempt, request, url, outcome, found]
    s_image_url,        \* local image_url of the attempt in progress
    \* ---- run_web_scraping / scrape_multiple ----
    w_pc,               \* "idle" | "loop" | "extract" | "screenshot" | "done"
    w_search_results,   \* the candidates whose urls are scraped
    w_urls,             \* argument urls
    w_take_screenshots, \* argument take_screenshots
    w_i,                \* urls processed so far
    w_content,          \* content_data of the url in progress
    w_results,          \* local results; the return value when w_pc = "done"
    w_progress,         \* calls of progress_callback, in order
    w_outcomes,         \* what happened to each processed url: [fetch, shot]
    w_open,             \* browsers that are open
    \* ---- _take_screenshot, calls in a row on one WebScraper ----
    t_pc,               \* where the call is, "idle" when none was made
    t_url,              \* argument url
    t_path,             \* local screenshot_path: [name, time]
    t_exc,              \* class of the exception that is propagating, or ""
    t_ret,              \* return value: << >> for None, or << path >>
    t_clock,            \* int(time.time())
    t_files,            \* files of output_dir: [path, of, call]
    t_sessions,         \* state of every browser launched so far, in order
    t_owner,            \* the call that launched each of them
    t_calls,            \* calls made so far
    t_steps,             \* what the call in progress has done, in order
    t_navs,              \* the page.goto calls of the call in progress, in order
    \* ---- one call of scrape_page without a screenshot ----
    x_pc,               \* "idle" | "call" | "ret"
    x_url,              \* argument url
    x_page,             \* the page that the fetch of url gives
    x_result,           \* << >> or the WebPageData returned
    x_fault,            \* << >> or [step, e]: the step of _extract_content that
                        \* raised e (0: _fetch_and_parse, 1..5: the extractors)
    \* ---- app.py: the script and st.session_state ----
    a_pc,               \* "idle" | "search" | "scrape" | "generate" | "raised"
    a_image_path,       \* st.session_state.image_path (<< >> is None)
    a_processing,       \* st.session_state.processing
    a_search_results,   \* st.session_state.search_results (<< >> is None)
    a_web_data,         \* st.session_state.web_data (<< >> is None)
    a_ppt_path,         \* st.session_state.ppt_path (<< >> is None)
    a_num_results,      \* argument num_results of process_image
    a_local,            \* search_results and web_data of process_image
    a_run,              \* calls of process_image so far
    a_pressed,          \* the button was pressed in this run of the script
    a_steps,            \* the steps process_image has called
    a_shown,            \* st.warning, st.error and the final status shown
    a_made              \* the call that made each session value

(***************************************************************************)
(* Python str helpers                                                      *)
(***************************************************************************)
CharAt(s, i) == SubSeq(s, i, i)

\* t in s
Contains(s, t) ==
    \E i \in 1..(Len(s) - Len(t) + 1) : SubSeq(s, i, i + Len(t) - 1) = t

\* s.startswith(t)
StartsWith(s, t) == Len(s) >= Len(t) /\ SubSeq(s, 1, Len(t)) = t

\* s.endswith(t)
EndsWith(s, t) == Len(s) >= Len(t) /\ SubSeq(s, Len(s) - Len(t) + 1, Len(s)) = t

\* s[:n]
Prefix(s, n) == IF Len(s) <= n THEN s ELSE SubSeq(s, 1, n)

AsciiUpper == "ABCDEFGHIJKLMNOPQRSTUVWXYZ"
AsciiLower == "abcdefghijklmnopqrstuvwxyz"
Digits == "0123456789"

IsDigit(c) == \E i \in 1..Len(Digits) : CharAt(Digits, i) = c

LowerChar(c) ==
    IF \E i \in 1..Len(AsciiUpper) : CharAt(AsciiUpper, i) = c
    THEN CharAt(AsciiLower, CHOOSE i \in 1..Len(AsciiUpper) : CharAt(AsciiUpper, i) = c)
    ELSE c

RECURSIVE Lower(_)
\* s.lower()
Lower(s) == IF s = "" THEN "" ELSE LowerChar(Head(s)) \o Lower(Tail(s))

\* s.find(c) for c among the characters of cs, 1-based; Len(s)+1 when none
FirstOf(s, cs) ==
    IF \E i \in 1..Len(s) : Contains(cs, CharAt(s, i))
    THEN CHOOSE i \in 1..Len(s) :
            /\ Contains(cs, CharAt(s, i))
            /\ \A j \in 1..(i - 1) : ~Contains(cs, CharAt(s, j))
    ELSE Len(s) + 1

(***************************************************************************)
(* urllib.parse.urlparse, as far as image_search.py reads its result:      *)
(* scheme up to the first ':' when made of scheme characters, netloc       *)
(* after '//' up to the first of '/?#', then fragment, then query.         *)
(* error is TRUE where urlparse raises ValueError (unbalanced bracket).    *)
(***************************************************************************)
SchemeChars == AsciiLower \o AsciiUpper \o Digits \o "+-."

\* url.split('?', 1) on what is left, then the result
SplitQuery(scheme, netloc, rest, fragment, q) ==
    [scheme |-> scheme, netloc |-> netloc,
     path |-> SubSeq(rest, 1, q - 1),
     query |-> SubSeq(rest, q + 1, Len(rest)),
     fragment |-> fragment,
     error |-> Contains(netloc, "[") # Contains(netloc, "]")]

\* url.split('#', 1)
SplitFragment(scheme, netloc, rest, h) ==
    SplitQuery(scheme, netloc, SubSeq(rest, 1, h - 1),
               SubSeq(rest, h + 1, Len(rest)),
               FirstOf(SubSeq(rest, 1, h - 1), "?"))

\* _splitnetloc(url, 2): the netloc ends at the first of '/?#'
SplitNetlocAt(scheme, after, d) ==
    SplitFragment(scheme, SubSeq(after, 1, d - 1), SubSeq(after, d, Len(after)),
                  FirstOf(SubSeq(after, d, Len(after)), "#"))

\* if url[:2] == '//'
SplitNetloc(scheme, rest) ==
    IF StartsWith(rest, "//")
    THEN SplitNetlocAt(scheme, SubSeq(rest, 3, Len(rest)),
                       FirstOf(SubSeq(rest, 3, Len(rest)), "/?#"))
    ELSE SplitFragment(scheme, "", rest, FirstOf(rest, "#"))

\* url[:c-1] is a scheme: it starts with a letter and holds scheme characters
HasScheme(url, c) ==
    /\ c > 1
    /\ c <= Len(url)
    /\ ~IsDigit(CharAt(url, 1))
    /\ ~Contains("+-.", CharAt(url, 1))
    /\ \A i \in 1..(c - 1) : Contains(SchemeChars, CharAt(url, i))

SplitScheme(url, c) ==
    IF HasScheme(url, c)
    THEN SplitNetloc(Lower(SubSeq(url, 1, c - 1)), SubSeq(url, c + 1, Len(url)))
    ELSE SplitNetloc("", url)

urlsplit(url) == SplitScheme(url, FirstOf(url, ":"))

\* The URLs that occur in the inputs below; urlparse of each is computed once.
KnownURLs == {
    "https://amazon.com/x", "https://Amazon.com/y", "https://acme.io/p",
    "https://shop.net/a", "https://www.Google.com/s",
    "https://www.ebay.com/itm", "https://amazon.com/z", "https://blog.org/post",
    "https://ACME.io/v", "https://Pinterest.com/pin",
    "https://wiki.org/w", "https://walmart.com/k", "https://blog.org/k",
    "https://news.net/n", "https://amazon.com/t", "https://youtu.be/v" }
\* (the reverse-image inputs use the same urls)

ParsedURL == [u \in KnownURLs |-> urlsplit(u)]

urlparse(url) == IF url \in KnownURLs THEN ParsedURL[url] ELSE urlsplit(url)

(***************************************************************************)
(* Module constants and the deny-lists of _is_valid_result_url             *)
(***************************************************************************)
SHOPPING_DOMAINS == {
    "amazon.com", "amazon.in", "amazon.co.uk", "amazon.de",
    "flipkart.com", "myntra.com", "ajio.com",
    "ebay.com", "ebay.in", "ebay.co.uk",
    "walmart.com", "target.com", "bestbuy.com",
    "aliexpress.com", "alibaba.com",
    "snapdeal.com", "paytmmall.com", "tatacliq.com",
    "croma.com", "reliancedigital.in", "vijaysales.com",
    "jiomart.com", "bigbasket.com", "blinkit.com",
    "meesho.com", "indiamart.com", "shopclues.com",
    "etsy.com", "wayfair.com", "overstock.com",
    "homedepot.com", "lowes.com", "ikea.com",
    "costco.com", "samsclub.com", "kohls.com",
    "macys.com", "nordstrom.com", "zappos.com",
    "newegg.com", "bhphotovideo.com" }

excluded_domains == {
    "google.com", "googleapis.com", "gstatic.com",
    "bing.com", "microsoft.com", "msn.com", "live.com",
    "yahoo.com", "yandex.com", "yandex.ru", "baidu.com",
    "duckduckgo.com", "ask.com",
    "tineye.com", "serpapi.com" }

image_domains == {
    "imgur.com", "imgbb.com", "i.imgur.com",
    "flickr.com", "staticflickr.com",
    "cloudinary.com", "res.cloudinary.com",
    "pinimg.com", "pbs.twimg.com",
    "media.tumblr.com", "images.unsplash.com",
    "cdn.shopify.com", "encrypted-tbn",
    "iili.io", "freeimage.host", "0x0.st" }

social_domains == {
    "facebook.com", "instagram.com", "twitter.com",
    "tiktok.com", "pinterest.com", "linkedin.com",
    "reddit.com", "tumblr.com" }

video_domains == { "youtube.com", "youtu.be", "vimeo.com" }

spam_patterns == {
    "bank", "family.org", "fellowship.org", "church",
    "carbiderelatedtech", "curaresaude", "advogados",
    "school.org", "spec-school", "muhouseware.en.made-in-china" }

image_extensions == { ".jpg", ".jpeg", ".png", ".gif", ".webp", ".bmp", ".svg" }

\* any(entry in s for entry in list)
AnyIn(list, s) == \E e \in list : Contains(s, e)

(***************************************************************************)
(* _has_image_dimensions: re.search of four patterns in the whole url      *)
(***************************************************************************)
\* \d{2,4}x\d{2,4} matching at position i
DimAt(s, i) ==
    \E a \in 2..4, b \in 2..4 :
        /\ i >= 1
        /\ i + a + b <= Len(s)
        /\ \A k \in i..(i + a - 1) : IsDigit(CharAt(s, k))
        /\ CharAt(s, i + a) = "x"
        /\ \A k \in (i + a + 1)..(i + a + b) : IsDigit(CharAt(s, k))

\* \d{2,4}x\d{2,4}/ matching at position i
DimSlashAt(s, i) ==
    \E a \in 2..4, b \in 2..4 :
        /\ i >= 1
        /\ i + a + b + 1 <= Len(s)
        /\ \A k \in i..(i + a - 1) : IsDigit(CharAt(s, k))
        /\ CharAt(s, i + a) = "x"
        /\ \A k \in (i + a + 1)..(i + a + b) : IsDigit(CharAt(s, k))
        /\ CharAt(s, i + a + b + 1) = "/"

NoDimensionCheck(url) == FALSE

PathOnlyDimensions(url) ==
    \E i \in 1..Len(urlparse(url).path) : DimAt(urlparse(url).path, i)

_has_image_dimensions(url) ==
    \/ \E i \in 1..Len(url) : DimAt(url, i)
    \/ \E i \in 1..Len(url) : CharAt(url, i) = "_" /\ DimAt(url, i + 1)
    \/ \E i \in 1..Len(url) : CharAt(url, i) = "-" /\ DimAt(url, i + 1)
    \/ \E i \in 1..Len(url) : CharAt(url, i) = "/" /\ DimSlashAt(url, i + 1)

(***************************************************************************)
(* _is_valid_result_url                                                    *)
(***************************************************************************)
DeniedWhenEqual(domain) ==
    domain \in excluded_domains \cup image_domains \cup social_domains \cup video_domains

\* search engines, image hosting / CDN, social media, video platforms
IsDeniedDomain(domain) ==
    \/ AnyIn(excluded_domains, domain)
    \/ AnyIn(image_domains, domain)
    \/ AnyIn(social_domains, domain)
    \/ AnyIn(video_domains, domain)

IsSpamDomain(domain) == AnyIn(spam_patterns, domain)

IsImageFileExact(path) == Lower(path) \in image_extensions

\* path = parsed.path.lower(); any(path.endswith(ext) for ext in image_extensions)
IsImageFile(path) == \E ext \in image_extensions : EndsWith(Lower(path), ext)

\* The checks after the seen_domains test, which read the url alone.
UrlChecksOf(url) ==
    LET parsed == urlparse(url)
        domain == Lower(parsed.netloc)
    IN  /\ ~parsed.error
        /\ ~IsDeniedDomain(domain)
        /\ ~IsSpamDomain(domain)
        /\ ~IsImageFile(parsed.path)
        /\ ~_has_image_dimensions(url)

CheckedURL == [u \in KnownURLs |-> UrlChecksOf(u)]

UrlChecks(url) == IF url \in KnownURLs THEN CheckedURL[url] ELSE UrlChecksOf(url)

LowerNetloc == [u \in KnownURLs |-> Lower(urlparse(u).netloc)]

\* urlparse(url).netloc.lower()
DomainOf(url) == IF url \in KnownURLs THEN LowerNetloc[url] ELSE Lower(urlparse(url).netloc)

_is_valid_result_url(url, seen) ==
    IF url = "" \/ ~StartsWith(url, "http")
    THEN FALSE
    ELSE LET parsed == urlparse(url)
             domain == DomainOf(url)
         IN  IF parsed.error THEN FALSE
             ELSE IF domain \in seen THEN FALSE
             ELSE UrlChecks(url)

(***************************************************************************)
(* dict.get and Python's `or` on strings                                   *)
(***************************************************************************)
Get(d, k, default) == IF k \in DOMAIN d THEN d[k] ELSE default

Or(a, b) == IF a # "" THEN a ELSE b

\* The empty dict {} / a dict or str value where the code tests isinstance
EmptyDict == [py |-> "dict", v |-> <<>>]
PyDict(rec) == [py |-> "dict", v |-> rec]
PyStr(s) == [py |-> "str", v |-> s]
PyList(seq) == [py |-> "list", v |-> seq]

\* A result as appended by the extractors; origin = <<tier, index in the
\* tier's raw list>> is history information the dict in the code does not
\* hold, Public drops it.
Result(title, url, origin) == [title |-> title, url |-> url, origin |-> origin]
Public(r) == [title |-> r.title, url |-> r.url]
PublicList(rs) == [i \in 1..Len(rs) |-> Public(rs[i])]
Origins(rs) == [i \in 1..Len(rs) |-> rs[i].origin]

\* list[:n] for n >= 0
Take(list, n) == IF Len(list) <= n THEN list ELSE SubSeq(list, 1, n)

(***************************************************************************)
(* _is_shopping_domain                                                     *)
(***************************************************************************)
_is_shopping_domain(domain) == AnyIn(SHOPPING_DOMAINS, Lower(domain))

(***************************************************************************)
(* _extract_shopping_results: loop state st = [shopping, other, seen]      *)
(***************************************************************************)
ShoppingTitleNoPrice(title, price, domain) == IF title # "" THEN title ELSE domain

ShoppingTitle(title, price, domain) ==
    IF price # "" THEN title \o " - " \o price
    ELSE IF title # "" THEN title ELSE domain

RECURSIVE ShoppingLoop(_, _, _)
ShoppingLoop(shopping, i, st) ==
    IF i > Len(shopping) THEN st
    ELSE LET item == shopping[i]
             url == Or(Get(item, "link", ""), Get(item, "source", ""))
             title == Get(item, "title", "")
             price == Get(item, "price", "")
         IN  IF url # "" /\ _is_valid_result_url(url, st.seen)
             THEN LET domain == urlparse(url).netloc
                      display_title == ShoppingTitle(title, price, domain)
                  IN  ShoppingLoop(shopping, i + 1,
                        [st EXCEPT !.seen = @ \cup {domain},
                                   !.shopping = Append(@, Result(display_title, url, <<1, i>>))])
             ELSE ShoppingLoop(shopping, i + 1, st)

_extract_shopping_results(d, st) ==
    ShoppingLoop(Get(d, "shopping_results", <<>>), 1, st)

(***************************************************************************)
(* _extract_visual_matches                                                 *)
(***************************************************************************)
PriceStr(price) ==
    IF price.py = "dict" THEN Get(price.v, "value", "")
    ELSE IF price.v # "" THEN price.v
    ELSE ""

AllToOther(domain) == FALSE

\* the branch at line 199: TRUE appends to shopping_results
VisualIsShopping(domain) == _is_shopping_domain(domain)

RECURSIVE VisualLoop(_, _, _)
VisualLoop(visual_matches, i, st) ==
    IF i > Len(visual_matches) THEN st
    ELSE LET match == visual_matches[i]
             url == Get(match, "link", "")
             title == Or(Get(match, "title", ""), Get(match, "source", ""))
             price_str == PriceStr(Get(match, "price", EmptyDict))
         IN  IF url = "" \/ ~_is_valid_result_url(url, st.seen)
             THEN VisualLoop(visual_matches, i + 1, st)
             ELSE LET domain == DomainOf(url)
                      display_title ==
                          IF price_str # "" THEN title \o " - " \o price_str
                          ELSE IF title # "" THEN title ELSE domain
                      result == Result(display_title, url, <<2, i>>)
                      st1 == [st EXCEPT !.seen = @ \cup {domain}]
                  IN  IF VisualIsShopping(domain)
                      THEN VisualLoop(visual_matches, i + 1,
                                      [st1 EXCEPT !.shopping = Append(@, result)])
                      ELSE VisualLoop(visual_matches, i + 1,
                                      [st1 EXCEPT !.other = Append(@, result)])

_extract_visual_matches(d, st) ==
    VisualLoop(Get(d, "visual_matches", <<>>), 1, st)

(***************************************************************************)
(* _add_result_if_valid, _extract_knowledge_graph, _extract_text_results   *)
(* (results is other_results at both call sites of the Lens parser)        *)
(***************************************************************************)
_add_result_if_valid(url, title, origin, st) ==
    IF url # "" /\ _is_valid_result_url(url, st.seen)
    THEN LET domain == urlparse(url).netloc
             display_title == Or(title, domain)
         IN  [st EXCEPT !.seen = @ \cup {domain},
                        !.other = Append(@, Result(display_title, url, origin))]
    ELSE st

\* line 219: item.get('source', {}).get('link', '') is evaluated when the
\* link is missing or empty, and a source that is not a dict has no get
SourceLinkRaises(item) ==
    Get(item, "link", "") = "" /\ Get(item, "source", EmptyDict).py # "dict"

RECURSIVE KnowledgeLoop(_, _, _, _)
KnowledgeLoop(knowledge_graph, i, st, n) ==
    IF i > Len(knowledge_graph) THEN st
    ELSE IF Len(st.other) >= n THEN st
    ELSE LET item == knowledge_graph[i]
             source == Get(item, "source", EmptyDict)
             url == Or(Get(item, "link", ""), Get(source.v, "link", ""))
             title == Get(item, "title", "")
         IN  IF SourceLinkRaises(item)
             THEN [st EXCEPT !.raised = "AttributeError"]
             ELSE KnowledgeLoop(knowledge_graph, i + 1,
                                _add_result_if_valid(url, title, <<3, i>>, st), n)

_extract_knowledge_graph(d, st, n) ==
    LET knowledge_graph == Get(d, "knowledge_graph", PyList(<<>>))
    IN  IF knowledge_graph.py # "list" THEN st
        ELSE KnowledgeLoop(knowledge_graph.v, 1, st, n)

RECURSIVE TextLoop(_, _, _, _)
TextLoop(text_results, i, st, n) ==
    IF i > Len(text_results) THEN st
    ELSE IF Len(st.other) >= n THEN st
    ELSE LET item == text_results[i]
             url == Get(item, "link", "")
             title == Get(item, "title", "")
         IN  TextLoop(text_results, i + 1,
                      _add_result_if_valid(url, title, <<4, i>>, st), n)

\* data.get('text_results', []) or data.get('organic_results', [])
TextResultsOf(d) ==
    IF Get(d, "text_results", <<>>) # <<>> THEN d.text_results
    ELSE Get(d, "organic_results", <<>>)

_extract_text_results(d, st, n) == TextLoop(TextResultsOf(d), 1, st, n)

(***************************************************************************)
(* _parse_serpapi_lens_results                                             *)
(***************************************************************************)
KeptSeenDomains(prev) == prev

\* seen_domains: set[str] = set()   (prev: the set of the previous call)
NewSeenDomains(prev) == {}

\* an exception of _extract_knowledge_graph leaves the parser at once
UnlessRaised(d, st, n) ==
    IF st.raised # "" THEN st ELSE _extract_text_results(d, st, n)

LensLocals(d, n, prev_seen) ==
    LET st0 == [shopping |-> <<>>, other |-> <<>>, seen |-> NewSeenDomains(prev_seen),
                raised |-> ""]
        st1 == _extract_shopping_results(d, st0)
        st2 == _extract_visual_matches(d, st1)
        st3 == _extract_knowledge_graph(d, st2, n)
    IN  UnlessRaised(d, st3, n)

OthersFirst(st, n) == Take(st.other \o st.shopping, n)
Untruncated(st, n) == st.shopping \o st.other

\* all_results = shopping_results + other_results; return all_results[:num_results]
LensReturn(st, n) == Take(st.shopping \o st.other, n)

_parse_serpapi_lens_results(d, n) == LensReturn(LensLocals(d, n, {}), n)

\* the exception of the parser is caught at line 125 and results stays []
ReturnOrNone(st, n) == IF st.raised # "" THEN <<>> ELSE LensReturn(st, n)

ParsedOrNone(d, n) == ReturnOrNone(LensLocals(d, n, {}), n)

(***************************************************************************)
(* _parse_serpapi_reverse_results (results is st.other)                    *)
(***************************************************************************)
RECURSIVE ImageResultsLoop(_, _, _, _)
ImageResultsLoop(image_results, i, st, n) ==
    IF i > Len(image_results) THEN st
    ELSE IF Len(st.other) >= n THEN st
    ELSE LET match == image_results[i]
             url == Or(Get(match, "link", ""), Get(match, "source", ""))
             title == Or(Get(match, "title", ""), Get(match, "snippet", ""))
         IN  ImageResultsLoop(image_results, i + 1,
                              _add_result_if_valid(url, title, <<5, i>>, st), n)

_extract_image_results(d, st, n) ==
    ImageResultsLoop(Get(d, "image_results", <<>>), 1, st, n)

RECURSIVE InlineImagesLoop(_, _, _, _)
InlineImagesLoop(inline_images, i, st, n) ==
    IF i > Len(inline_images) THEN st
    ELSE IF Len(st.other) >= n THEN st
    ELSE LET img == inline_images[i]
             url == Or(Get(img, "source", ""), Get(img, "link", ""))
             title == Get(img, "title", "")
         IN  InlineImagesLoop(inline_images, i + 1,
                              _add_result_if_valid(url, title, <<6, i>>, st), n)

_extract_inline_images(d, st, n) ==
    InlineImagesLoop(Get(d, "inline_images", <<>>), 1, st, n)

_parse_serpapi_reverse_results(d, n) ==
    LET st0 == [shopping |-> <<>>, other |-> <<>>, seen |-> {}]
        st1 == _extract_image_results(d, st0, n)
        st2 == _extract_inline_images(d, st1, n)
    IN  st2.other

(***************************************************************************)
(* search_by_image: the regrouping of the Lens results, lines 79-81        *)
(***************************************************************************)
IsShoppingResult(r) == _is_shopping_domain(urlparse(r.url).netloc)
IsOtherResult(r) == ~_is_shopping_domain(urlparse(r.url).netloc)

CutThenRegroup(results, n) ==
    SelectSeq(Take(results, n), IsShoppingResult) \o SelectSeq(Take(results, n), IsOtherResult)

RegroupLens(results, n) ==
    Take(SelectSeq(results, IsShoppingResult) \o SelectSeq(results, IsOtherResult), n)

(***************************************************************************)
(* web_scraper.py.  A fetched page is the parse tree as the extractors     *)
(* read it: title and meta are << >> (no such tag) or << the tag >>,       *)
(* elements are the h1/h2/h3/p elements in document order with the tag     *)
(* that encloses them (or ""), main is the text of the elements whose      *)
(* class matches content|article|post|body, body the text of <body>.       *)
(* Optional[str] is << >> for None and << s >> for the string s.           *)
(***************************************************************************)
Whitespace == " \t\n\r"

IsSpace(c) == Contains(Whitespace, c)

RECURSIVE LStrip(_)
LStrip(s) == IF s # "" /\ IsSpace(Head(s)) THEN LStrip(Tail(s)) ELSE s

RECURSIVE RStrip(_)
RStrip(s) ==
    IF s # "" /\ IsSpace(CharAt(s, Len(s))) THEN RStrip(SubSeq(s, 1, Len(s) - 1)) ELSE s

\* get_text(strip=True) of an element that holds one string
Strip(s) == RStrip(LStrip(s))

\* The three substitutions are computed character by character over halves
\* of the string, so that texts of several thousand characters are within
\* reach.
\* what re.sub(r'\s+', ' ', s) leaves of the character at i
WhitespaceSub(s, i) ==
    IF ~IsSpace(CharAt(s, i)) THEN CharAt(s, i)
    ELSE IF i > 1 /\ IsSpace(CharAt(s, i - 1)) THEN ""
    ELSE " "

RECURSIVE CollapseWhitespaceIn(_, _, _)
CollapseWhitespaceIn(s, lo, hi) ==
    IF lo > hi THEN ""
    ELSE IF lo = hi THEN WhitespaceSub(s, lo)
    ELSE CollapseWhitespaceIn(s, lo, (lo + hi) \div 2)
            \o CollapseWhitespaceIn(s, (lo + hi) \div 2 + 1, hi)

\* re.sub(r'\s+', ' ', s)
CollapseWhitespace(s) == CollapseWhitespaceIn(s, 1, Len(s))

\* what re.sub(r' +', ' ', s) leaves of the character at i
SpaceSub(s, i) ==
    IF CharAt(s, i) = " " /\ i > 1 /\ CharAt(s, i - 1) = " " THEN "" ELSE CharAt(s, i)

RECURSIVE CollapseSpacesIn(_, _, _)
CollapseSpacesIn(s, lo, hi) ==
    IF lo > hi THEN ""
    ELSE IF lo = hi THEN SpaceSub(s, lo)
    ELSE CollapseSpacesIn(s, lo, (lo + hi) \div 2)
            \o CollapseSpacesIn(s, (lo + hi) \div 2 + 1, hi)

\* re.sub(r' +', ' ', s)
CollapseSpaces(s) == CollapseSpacesIn(s, 1, Len(s))

\* the whitespace run around the whitespace character at i
RECURSIVE RunStart(_, _)
RunStart(s, i) == IF i > 1 /\ IsSpace(CharAt(s, i - 1)) THEN RunStart(s, i - 1) ELSE i

RECURSIVE RunEnd(_, _)
RunEnd(s, i) == IF i < Len(s) /\ IsSpace(CharAt(s, i + 1)) THEN RunEnd(s, i + 1) ELSE i

Newlines(s, lo, hi) == { k \in lo..hi : CharAt(s, k) = "\n" }

\* what re.sub(r'\n\s*\n', '\n\n', s) leaves of the character at i: a match
\* starts at the first newline of a whitespace run and, \s* being greedy,
\* ends at the last newline of that run
BlankLineSubIn(s, i, newlines) ==
    IF \A k \in newlines : \A m \in newlines : k = m THEN CharAt(s, i)
    ELSE IF (\A k \in newlines : i < k) \/ (\A k \in newlines : i > k) THEN CharAt(s, i)
    ELSE IF \A k \in newlines : i <= k THEN "\n\n"
    ELSE ""

BlankLineSub(s, i) ==
    IF ~IsSpace(CharAt(s, i)) THEN CharAt(s, i)
    ELSE BlankLineSubIn(s, i, Newlines(s, RunStart(s, i), RunEnd(s, i)))

RECURSIVE CollapseBlankLinesIn(_, _, _)
CollapseBlankLinesIn(s, lo, hi) ==
    IF lo > hi THEN ""
    ELSE IF lo = hi THEN BlankLineSub(s, lo)
    ELSE CollapseBlankLinesIn(s, lo, (lo + hi) \div 2)
            \o CollapseBlankLinesIn(s, (lo + hi) \div 2 + 1, hi)

\* re.sub(r'\n\s*\n', '\n\n', s)
CollapseBlankLines(s) == CollapseBlankLinesIn(s, 1, Len(s))

\* result = {'title': '', 'main_content': '', ...}, lines 71-78
NewContent ==
    [title |-> "", main_content |-> "", headings |-> <<>>, paragraphs |-> <<>>,
     meta_description |-> "", error |-> <<>>]

StrippedTags == { "script", "style", "nav", "footer", "header", "aside", "noscript" }

IsContentElement(e) == e.tag \notin StrippedTags /\ e.within \notin StrippedTags

\* _fetch_and_parse after a 2xx response: the decompose loop, lines 110-111
_fetch_and_parse(page) == [page EXCEPT !.elements = SelectSeq(@, IsContentElement)]

\* a page without a title is left with the empty title
TitleOrEmpty(soup, url, result) ==
    [result EXCEPT !.title = IF soup.title # <<>> THEN Strip(soup.title[1]) ELSE ""]

\* lines 115-118; get_text(strip=True) of the <title> element, which is
\* true as a condition even when it is empty
_extract_title(soup, url, result) ==
    [result EXCEPT !.title =
        IF soup.title # <<>> THEN Strip(soup.title[1]) ELSE urlparse(url).netloc]

\* the content is taken whole
DescriptionUncut(soup, result) ==
    IF soup.meta # <<>> /\ Get(soup.meta[1], "content", "") # ""
    THEN [result EXCEPT !.meta_description = soup.meta[1].content]
    ELSE result

\* lines 120-126
_extract_meta_description(soup, result) ==
    IF soup.meta # <<>> /\ Get(soup.meta[1], "content", "") # ""
    THEN [result EXCEPT !.meta_description = Prefix(soup.meta[1].content, 500)]
    ELSE result

\* soup.find_all(level): the elements of one tag, in document order
IsH1(e) == e.tag = "h1"
IsH2(e) == e.tag = "h2"
IsH3(e) == e.tag = "h3"
IsP(e) == e.tag = "p"

\* the inner loop of _extract_headings over find_all(level)[:10]
RECURSIVE HeadingsLoop(_, _, _)
HeadingsLoop(found, i, headings) ==
    IF i > Len(found) THEN headings
    ELSE IF Len(Strip(found[i].text)) > 3
         THEN HeadingsLoop(found, i + 1, Append(headings, Prefix(Strip(found[i].text), 200)))
    ELSE HeadingsLoop(found, i + 1, headings)

_extract_headings(soup, result) ==
    [result EXCEPT !.headings =
        Take(HeadingsLoop(Take(SelectSeq(soup.elements, IsH3), 10), 1,
               HeadingsLoop(Take(SelectSeq(soup.elements, IsH2), 10), 1,
                 HeadingsLoop(Take(SelectSeq(soup.elements, IsH1), 10), 1, <<>>))),
             15)]

RECURSIVE ParagraphsLoop(_, _, _)
ParagraphsLoop(found, i, paragraphs) ==
    IF i > Len(found) THEN paragraphs
    ELSE IF Len(Strip(found[i].text)) > 50
         THEN ParagraphsLoop(found, i + 1,
                Append(paragraphs, Prefix(CollapseWhitespace(Strip(found[i].text)), 500)))
    ELSE ParagraphsLoop(found, i + 1, paragraphs)

_extract_paragraphs(soup, result) ==
    [result EXCEPT !.paragraphs =
        Take(ParagraphsLoop(SelectSeq(soup.elements, IsP), 1, <<>>), 20)]

MainText(soup) ==
    IF soup.main # <<>> THEN soup.main[1]
    ELSE IF soup.body # <<>> THEN soup.body[1]
    ELSE ""

_extract_main_content(soup, result) ==
    [result EXCEPT !.main_content =
        Prefix(CollapseSpaces(CollapseBlankLines(MainText(soup))), 5000)]

\* The base classes of what requests.get, raise_for_status and BeautifulSoup
\* raise, as the except clauses of _extract_content see them.
ExceptionBases ==
    [ ReadTimeout |-> { "ReadTimeout", "Timeout", "RequestException", "Exception" },
      ConnectTimeout |-> { "ConnectTimeout", "ConnectionError", "Timeout",
                           "RequestException", "Exception" },
      ConnectionError |-> { "ConnectionError", "RequestException", "Exception" },
      HTTPError |-> { "HTTPError", "RequestException", "Exception" },
      FeatureNotFound |-> { "FeatureNotFound", "ValueError", "Exception" },
      JSONDecodeError |-> { "JSONDecodeError", "InvalidJSONError", "RequestException",
                            "ValueError", "Exception" },
      AttributeError |-> { "AttributeError", "Exception" },
      OSError |-> { "OSError", "Exception" },
      ValueError |-> { "ValueError", "Exception" },
      PlaywrightError |-> { "PlaywrightError", "Exception" },
      PlaywrightTimeout |-> { "PlaywrightTimeout", "PlaywrightError", "Exception" } ]

IsInstance(e, class) == class \in ExceptionBases[e.kind]

RequestErrorFirst(e) ==
    IF IsInstance(e, "RequestException") THEN "Request error: " \o Prefix(e.msg, 100)
    ELSE IF IsInstance(e, "Timeout") THEN "Request timed out"
    ELSE "Error: " \o Prefix(e.msg, 100)

\* the except clauses of _extract_content, lines 88-93
ErrorMessage(e) ==
    IF IsInstance(e, "Timeout") THEN "Request timed out"
    ELSE IF IsInstance(e, "RequestException") THEN "Request error: " \o Prefix(e.msg, 100)
    ELSE "Error: " \o Prefix(e.msg, 100)

\* _extract_content when _fetch_and_parse returns the page
ExtractedContent(url, page) ==
    _extract_main_content(_fetch_and_parse(page),
      _extract_paragraphs(_fetch_and_parse(page),
        _extract_headings(_fetch_and_parse(page),
          _extract_meta_description(_fetch_and_parse(page),
            _extract_title(_fetch_and_parse(page), url, NewContent)))))

\* lines 82-86: the k-th extractor, each of which assigns its field of result
\* in its last statement
ExtractStep(k, soup, url, result) ==
    IF k = 1 THEN _extract_title(soup, url, result)
    ELSE IF k = 2 THEN _extract_meta_description(soup, result)
    ELSE IF k = 3 THEN _extract_headings(soup, result)
    ELSE IF k = 4 THEN _extract_paragraphs(soup, result)
    ELSE _extract_main_content(soup, result)

RECURSIVE AfterSteps(_, _, _)
AfterSteps(n, soup, url) ==
    IF n = 0 THEN NewContent
    ELSE ExtractStep(n, soup, url, AfterSteps(n - 1, soup, url))

\* every field is back at its default when an extractor raises
DefaultsOnFailure(url, page, step, e) ==
    [NewContent EXCEPT !.error = << "Error: " \o Prefix(e.msg, 100) >>]

\* _extract_content when the extractor of index step raises e: the
\* extractors before it have run, the except clause sets error
PartialContent(url, page, step, e) ==
    [AfterSteps(step - 1, _fetch_and_parse(page), url)
        EXCEPT !.error = << ErrorMessage(e) >>]

\* _extract_content when _fetch_and_parse raises e
FailedContent(e) == [NewContent EXCEPT !.error = << ErrorMessage(e) >>]

\* a summary without a screenshot is marked as failed
ErrorWithoutScreenshot(url, content_data, screenshot_path) ==
    [url |-> url,
     title |-> content_data.title,
     screenshot_path |-> screenshot_path,
     main_content |-> content_data.main_content,
     headings |-> content_data.headings,
     paragraphs |-> content_data.paragraphs,
     meta_description |-> content_data.meta_description,
     error |-> IF screenshot_path = << >> THEN << "Screenshot failed" >>
               ELSE content_data.error]

\* scrape_page, lines 58-67
WebPageData(url, content_data, screenshot_path) ==
    [url |-> url,
     title |-> content_data.title,
     screenshot_path |-> screenshot_path,
     main_content |-> content_data.main_content,
     headings |-> content_data.headings,
     paragraphs |-> content_data.paragraphs,
     meta_description |-> content_data.meta_description,
     error |-> content_data.error]

\* app.py: urls = [r['url'] for r in search_results]
UrlsOf(search_results) == [i \in 1..Len(search_results) |-> search_results[i].url]

(***************************************************************************)
(* Inputs: URLs for the admission filter on its own                        *)
(***************************************************************************)
FilterSchemes == { "https://", "http://", "ftp://" }

FilterHosts == {
    "amazon.com", "Amazon.com", "acme.io", "ACME.io", "shop.jpg",
    "www.Google.com", "i.imgur.com", "Pinterest.com", "youtu.be",
    "mybank.org", "[acme.io" }

FilterPaths == {
    "", "/x", "/a.jpg", "/a.JPG", "/a.png/", "/800x600/a", "/img_64x64",
    "/v-1x22", "/s/12345x678", "/9X99" }

FilterTails == { "", "?i=a.jpg", "#f.jpg", "?s=100x100" }

FilterURLs ==
    { sc \o h \o p \o t :
        sc \in FilterSchemes, h \in FilterHosts, p \in FilterPaths, t \in FilterTails }
    \cup { "", "amazon.com/x", "https:/acme.io/a.jpg" }
    \cup { "httpx://acme.io/x", "http:///x", "https:/acme.io/x", "http:acme.io/x",
           "HTTP://acme.io/x", "http" }

FilterSeen == { {}, {"acme.io"}, {"amazon.com", "Acme.io"} }

(***************************************************************************)
(* Inputs: raw provider responses for the Lens parser                      *)
(***************************************************************************)
MaxItems == 3      \* raw items in one response, all tiers together
MaxCount == 3      \* largest num_results

ShopItems == {
    [link |-> "https://amazon.com/x", title |-> "Widget", price |-> "$9"],
    [link |-> "https://Amazon.com/y", title |-> "Gadget"],
    [source |-> "https://acme.io/p", price |-> "$5"],
    [link |-> "https://shop.net/a"],
    [link |-> "https://www.Google.com/s", title |-> "G"],
    [title |-> "NoLink", price |-> "$1"] }

VisualItems == {
    [link |-> "https://www.ebay.com/itm", title |-> "Lamp", price |-> PyDict([value |-> "$7"])],
    [link |-> "https://amazon.com/z", title |-> "Dup"],
    [link |-> "https://blog.org/post", source |-> "Blog"],
    [link |-> "https://ACME.io/v", price |-> PyStr("$3")],
    [link |-> "https://Pinterest.com/pin", title |-> "Pin"] }

KnowledgeItems == {
    [link |-> "https://wiki.org/w", title |-> "Wiki"],
    [source |-> PyDict([link |-> "https://walmart.com/k"]), title |-> "KG"],
    [link |-> "https://blog.org/k"] }

TextItems == {
    [link |-> "https://news.net/n", title |-> "News"],
    [link |-> "https://amazon.com/t", title |-> "AmzText"],
    [link |-> "https://youtu.be/v", title |-> "Vid"] }

\* A response holds a key only when its list is not empty, so that every
\* data.get(key, []) default is exercised.
Field(key, value, present) == IF present THEN key :> value ELSE <<>>

MkData(s, v, k, tkey, t) ==
    Field("shopping_results", s, s # <<>>)
    @@ Field("visual_matches", v, v # <<>>)
    @@ Field("knowledge_graph", k, k.py = "dict" \/ k.v # <<>>)
    @@ Field(tkey, t, t # <<>>)

\* P holds of some response of at most MaxItems raw items
ForSomeResponse(P(_)) ==
    \E ls \in 0..MaxItems :
    \E lv \in 0..(MaxItems - ls) :
    \E lk \in 0..(MaxItems - ls - lv) :
    \E lt \in 0..(MaxItems - ls - lv - lk) :
    \E s \in [1..ls -> ShopItems], v \in [1..lv -> VisualItems],
       kq \in [1..lk -> KnowledgeItems], t \in [1..lt -> TextItems] :
    \E k \in IF lk = 0 THEN { PyList(kq), PyDict(<<>>) } ELSE { PyList(kq) } :
    \E tkey \in IF lt = 0 THEN { "text_results" }
                ELSE { "text_results", "organic_results" } :
    \E d \in { MkData(s, v, k, tkey, t) } :
        P(d)

ImageItems == {
    [link |-> "https://wiki.org/w", title |-> "Wiki"],
    [source |-> "https://news.net/n", snippet |-> "Snip"],
    [link |-> "https://Amazon.com/y"],
    [link |-> "https://Pinterest.com/pin", title |-> "Pin"] }

InlineItems == {
    [source |-> "https://blog.org/post", title |-> "B"],
    [link |-> "https://shop.net/a"],
    [source |-> "https://amazon.com/z", link |-> "https://wiki.org/w"] }

\* P holds of some reverse-image response of at most MaxItems raw items
ForSomeReverseResponse(P(_)) ==
    \E li \in 0..MaxItems :
    \E ln \in 0..(MaxItems - li) :
    \E im \in [1..li -> ImageItems], inl \in [1..ln -> InlineItems] :
    \E d \in { Field("image_results", im, im # <<>>)
               @@ Field("inline_images", inl, inl # <<>>) } :
        P(d)

\* The ways an HTTP request of the search fails: the provider is not
\* reachable, the request times out, the status is not 200, the body is not
\* JSON, the JSON is not an object (data.get raises)
HttpFailures == { "exception", "timeout", "status", "bad_json", "not_a_dict" }

\* The outcomes of _upload_image that return None: the image file cannot be
\* read, the upload raises, the status is not 200, the host reports an error
\* or gives no url
UploadFailures == { "unreadable_image", "exception", "status", "host_error", "no_url" }

\* The class of the exception a failure raises, "" when it raises none
FailureClass ==
    [ exception |-> "ConnectionError", timeout |-> "ReadTimeout",
      bad_json |-> "JSONDecodeError", not_a_dict |-> "AttributeError",
      unreadable_image |-> "OSError",
      status |-> "", host_error |-> "", no_url |-> "", ok |-> "" ]

CaughtRequestErrorsOnly(class) == "RequestException" \in ExceptionBases[class]

\* except Exception, lines 83, 94, 125, 273 and 338
Caught(class) == "Exception" \in ExceptionBases[class]

\* the failure raises an exception that no except clause on its way catches
Escapes(failure) == FailureClass[failure] # "" /\ ~Caught(FailureClass[failure])

\* The public url the upload host gives an image, a new one for each upload
ImageUrlOf == [ lens |-> "https://iili.io/1.jpg", reverse |-> "https://iili.io/2.jpg" ]

\* _upload_image: the url of the uploaded image, or None
_upload_image(attempt, outcome) ==
    IF outcome = "ok" THEN << ImageUrlOf[attempt] >> ELSE << >>

HasUrlAlways(image_url) == TRUE

\* lines 105 and 254: if not image_url: return results
HasUrl(image_url) == image_url # << >>

AlwaysFallback(results) == "rev_upload"

\* lines 76-87: where search_by_image goes after the Lens attempt
LensNext(results) == IF results # <<>> THEN "done" ELSE "rev_upload"

\* An entry of s_calls: the url is the one an upload returned or a search
\* sent, found the number of candidates a search request led to
Request(attempt, request, url, outcome, found) ==
    [attempt |-> attempt, request |-> request, url |-> url, outcome |-> outcome,
     found |-> found]

\* The inputs of two or more calls in a row (SpecCalls)
ProbeResponses == {
    MkData(<<>>, <<>>, PyList(<<>>), "text_results", <<>>),
    MkData(<<[link |-> "https://amazon.com/x", title |-> "Widget", price |-> "$9"]>>,
           <<>>, PyList(<<>>), "text_results", <<>>),
    MkData(<<[link |-> "https://amazon.com/x", title |-> "Widget", price |-> "$9"]>>,
           <<[link |-> "https://blog.org/post", source |-> "Blog"]>>,
           PyList(<<>>), "text_results",
           <<[link |-> "https://news.net/n", title |-> "News"]>>),
    MkData(<<>>, <<[link |-> "https://amazon.com/z", title |-> "Dup"],
                   [link |-> "https://blog.org/post", source |-> "Blog"]>>,
           PyList(<<[link |-> "https://wiki.org/w", title |-> "Wiki"]>>),
           "organic_results", <<>>) }

(***************************************************************************)
(* State machine                                                           *)
(***************************************************************************)
vars == << f_pc, f_url, f_seen, f_ret,
           r_pc, data, num_results, seen_domains, shopping_results,
           other_results, r_ret, r_kept,
           s_pc, s_n, s_api_key, s_results, s_parsed, s_ret, s_calls, s_image_url,
           w_pc, w_search_results, w_urls, w_take_screenshots, w_i, w_content,
           w_results, w_progress, w_outcomes, w_open,
           t_pc, t_url, t_path, t_exc, t_ret, t_clock, t_files, t_sessions,
           t_owner, t_calls, t_steps, t_navs,
           x_pc, x_url, x_page, x_result, x_fault,
           a_pc, a_image_path, a_processing, a_search_results, a_web_data,
           a_ppt_path, a_num_results, a_local, a_run, a_pressed, a_steps,
           a_shown, a_made >>

f_vars == << f_pc, f_url, f_seen, f_ret >>
r_vars == << r_pc, data, num_results, seen_domains, shopping_results,
             other_results, r_ret, r_kept >>

s_vars == << s_pc, s_n, s_api_key, s_results, s_parsed, s_ret, s_calls, s_image_url >>

w_vars == << w_pc, w_search_results, w_urls, w_take_screenshots, w_i, w_content,
             w_results, w_progress, w_outcomes, w_open >>

t_vars == << t_pc, t_url, t_path, t_exc, t_ret, t_clock, t_files, t_sessions,
             t_owner, t_calls, t_steps, t_navs >>

NoParse == [engine |-> "none", n |-> 0, out |-> <<>>]

SearchIdle ==
    /\ s_pc = "idle" /\ s_n = 1 /\ s_api_key = TRUE /\ s_results = <<>>
    /\ s_parsed = NoParse /\ s_ret = <<>> /\ s_calls = <<>> /\ s_image_url = <<>>

ScrapeIdle ==
    /\ w_pc = "idle" /\ w_search_results = <<>> /\ w_urls = <<>>
    /\ w_take_screenshots = TRUE /\ w_i = 0 /\ w_content = NewContent
    /\ w_results = <<>> /\ w_progress = <<>> /\ w_outcomes = <<>> /\ w_open = 0

NoPath == ""

x_vars == << x_pc, x_url, x_page, x_result, x_fault >>

a_vars == << a_pc, a_image_path, a_processing, a_search_results, a_web_data,
             a_ppt_path, a_num_results, a_local, a_run, a_pressed, a_steps,
             a_shown, a_made >>

NoLocals == [search_results |-> << >>, web_data |-> << >>]

NeverMade == [search_results |-> 0, web_data |-> 0, ppt_path |-> 0]

\* init_session_state, lines 203-214
init_session_state ==
    /\ a_search_results = << >> /\ a_web_data = << >> /\ a_ppt_path = << >>
    /\ a_image_path = << >> /\ a_processing = FALSE

AppIdle ==
    /\ init_session_state
    /\ a_pc = "idle" /\ a_num_results = 1 /\ a_local = NoLocals /\ a_run = 0
    /\ a_pressed = FALSE /\ a_steps = << >> /\ a_shown = << >> /\ a_made = NeverMade

ExtractIdle ==
    /\ x_pc = "idle" /\ x_url = "" /\ x_page = << >> /\ x_result = << >>
    /\ x_fault = << >>

ShotIdle ==
    /\ t_pc = "idle" /\ t_url = "" /\ t_path = NoPath /\ t_exc = "" /\ t_ret = << >>
    /\ t_clock = 0 /\ t_files = {} /\ t_sessions = << >> /\ t_owner = << >>
    /\ t_calls = 0 /\ t_steps = << >> /\ t_navs = << >>

FilterIdle == f_pc = "idle" /\ f_url = "" /\ f_seen = {} /\ f_ret = FALSE

RankLocalsEmpty ==
    /\ seen_domains = {}
    /\ shopping_results = <<>>
    /\ other_results = <<>>
    /\ r_ret = <<>>
    /\ r_kept = <<>>

RankIdle == r_pc = "idle" /\ data = <<>> /\ num_results = 1 /\ RankLocalsEmpty

\* ---- the admission filter on one url ----
FilterInit ==
    /\ f_pc = "call"
    /\ f_url \in FilterURLs
    /\ f_seen \in FilterSeen
    /\ f_ret = FALSE
    /\ RankIdle
    /\ SearchIdle
    /\ ScrapeIdle
    /\ ShotIdle
    /\ ExtractIdle
    /\ AppIdle

FilterCall ==
    /\ f_pc = "call"
    /\ f_ret' = _is_valid_result_url(f_url, f_seen)
    /\ f_pc' = "ret"
    /\ UNCHANGED << f_url, f_seen >>
    /\ UNCHANGED << r_vars, s_vars, w_vars, t_vars, x_vars, a_vars >>

SpecFilter == FilterInit /\ [][FilterCall]_vars

\* ---- one call of _parse_serpapi_lens_results ----
RankInit ==
    /\ FilterIdle
    /\ SearchIdle
    /\ ScrapeIdle
    /\ ShotIdle
    /\ ExtractIdle
    /\ AppIdle
    /\ r_pc = "call"
    /\ ForSomeResponse(LAMBDA d : data = d)
    /\ num_results \in 1..MaxCount
    /\ RankLocalsEmpty

ParseLens ==
    /\ r_pc = "call"
    /\ \E st \in { LensLocals(data, num_results, seen_domains) } :
           /\ seen_domains' = st.seen
           /\ shopping_results' = st.shopping
           /\ other_results' = st.other
           /\ r_ret' = IF st.raised # "" THEN <<>> ELSE LensReturn(st, num_results)
           /\ r_pc' = IF st.raised # "" THEN "raised" ELSE "ret"
    /\ UNCHANGED << data, num_results, r_kept >>
    /\ UNCHANGED << f_vars, s_vars, w_vars, t_vars, x_vars, a_vars >>

Spec == RankInit /\ [][ParseLens]_vars

\* ---- one call on a response from which fields have been taken away ----
TopLevelFields ==
    { "shopping_results", "visual_matches", "knowledge_graph", "text_results",
      "organic_results" }

ItemFields == { "link", "source", "title", "price" }

AbsentCount == 5   \* num_results, above the number of candidates of a response

\* a response with every field; source is a url in tier 1, the name of a
\* site in tier 2 and, in tier 3, a dict or the name of a site
FullResponse(kg_source) ==
    [shopping_results |->
        << [link |-> "https://shop.net/a", source |-> "https://acme.io/p",
            title |-> "Widget", price |-> "$9"] >>,
     visual_matches |->
        << [link |-> "https://www.ebay.com/itm", source |-> "eBay",
            title |-> "Lamp", price |-> PyDict([value |-> "$7"])] >>,
     knowledge_graph |->
        PyList(<< [link |-> "https://wiki.org/w", source |-> kg_source,
                   title |-> "Wiki", price |-> "$1"] >>),
     text_results |->
        << [link |-> "https://news.net/n", source |-> "News", title |-> "News",
            price |-> "$2"] >>,
     organic_results |->
        << [link |-> "https://blog.org/k", source |-> "Blog", title |-> "Blog",
            price |-> "$3"] >>]

KgSources == { PyDict([link |-> "https://walmart.com/k"]), PyStr("Wikipedia") }

Without(rec, missing) == [k \in (DOMAIN rec) \ missing |-> rec[k]]

ItemsWithout(items, missing) == [i \in 1..Len(items) |-> Without(items[i], missing)]

\* the full response without the top-level fields of top and, in every
\* item, without the fields of item
AbsentResponse(kg_source, top, item) ==
    [k \in TopLevelFields \ top |->
        IF k = "knowledge_graph"
        THEN PyList(ItemsWithout(FullResponse(kg_source)[k].v, item))
        ELSE ItemsWithout(FullResponse(kg_source)[k], item)]

AbsentInit ==
    /\ FilterIdle
    /\ SearchIdle
    /\ ScrapeIdle
    /\ ShotIdle
    /\ ExtractIdle
    /\ AppIdle
    /\ r_pc = "call"
    /\ \E kg_source \in KgSources, top \in SUBSET TopLevelFields, item \in SUBSET ItemFields :
          data = AbsentResponse(kg_source, top, item)
    /\ num_results = AbsentCount
    /\ RankLocalsEmpty

SpecAbsent == AbsentInit /\ [][ParseLens]_vars

\* ---- calls in a row on one ReverseImageSearch object ----
CallsInit ==
    /\ FilterIdle
    /\ SearchIdle
    /\ ScrapeIdle
    /\ ShotIdle
    /\ ExtractIdle
    /\ AppIdle
    /\ r_pc = "call"
    /\ data \in ProbeResponses
    /\ num_results \in 1..MaxCount
    /\ RankLocalsEmpty

\* The caller calls again; r_kept keeps the call it had, or the one that
\* has just returned.
NextCall ==
    /\ r_pc = "ret"
    /\ data' \in ProbeResponses
    /\ num_results' \in 1..MaxCount
    /\ r_kept' \in { r_kept,
                     << [data |-> data, num_results |-> num_results,
                         ret |-> PublicList(r_ret)] >> }
    /\ r_pc' = "call"
    /\ UNCHANGED << seen_domains, shopping_results, other_results, r_ret >>
    /\ UNCHANGED << f_vars, s_vars, w_vars, t_vars, x_vars, a_vars >>

SpecCalls == CallsInit /\ [][ParseLens \/ NextCall]_vars

\* ---- search_by_image, one step per request it sends ----
SearchInit ==
    /\ FilterIdle
    /\ RankIdle
    /\ ScrapeIdle
    /\ ShotIdle
    /\ ExtractIdle
    /\ AppIdle
    /\ s_pc = "start"
    /\ s_n \in 1..MaxCount
    /\ s_api_key \in BOOLEAN
    /\ s_results = <<>>
    /\ s_parsed = NoParse
    /\ s_ret = <<>>
    /\ s_calls = <<>>
    /\ s_image_url = <<>>

\* lines 66-72
SearchStart ==
    /\ s_pc = "start"
    /\ IF ~s_api_key
       THEN s_pc' = "done" /\ s_ret' = s_results
       ELSE s_pc' = "lens_upload" /\ s_ret' = s_ret
    /\ UNCHANGED << s_n, s_api_key, s_results, s_parsed, s_calls, s_image_url >>
    /\ UNCHANGED << f_vars, r_vars, w_vars, t_vars, x_vars, a_vars >>

\* _search_serpapi_lens, lines 104-107: the upload and the test of its url
LensUpload(outcome) ==
    /\ s_pc = "lens_upload"
    /\ s_calls' = Append(s_calls, Request("lens", "upload", _upload_image("lens", outcome), outcome, 0))
    /\ s_image_url' = _upload_image("lens", outcome)
    /\ IF Escapes(outcome)
       THEN s_pc' = "raised" /\ s_results' = s_results
       ELSE IF HasUrl(_upload_image("lens", outcome))
       THEN s_pc' = "lens_get" /\ s_results' = s_results
       ELSE s_pc' = LensNext(<<>>) /\ s_results' = <<>>
    /\ UNCHANGED << s_n, s_api_key, s_parsed, s_ret >>
    /\ UNCHANGED << f_vars, r_vars, w_vars, t_vars, x_vars, a_vars >>

LensUploadOk == LensUpload("ok")

\* the upload gave None: _search_serpapi_lens returns [], line 87 is next
LensUploadFails == \E failure \in UploadFailures : LensUpload(failure)

\* lines 116-128 with a 200 response holding JSON d, then lines 76-82
LensGetJson(d) ==
    /\ s_pc = "lens_get"
    /\ \E results \in { ParsedOrNone(d, s_n * 2) } :
           /\ s_calls' = Append(s_calls,
                 Request("lens", "google_lens", s_image_url, "ok", Len(results)))
           /\ s_parsed' = [engine |-> "google_lens", n |-> s_n * 2, out |-> results]
           /\ s_pc' = LensNext(results)
           /\ IF results # <<>>
              THEN /\ s_results' = RegroupLens(results, s_n)
                   /\ s_ret' = RegroupLens(results, s_n)
              ELSE /\ s_results' = results
                   /\ s_ret' = s_ret
    /\ UNCHANGED << s_n, s_api_key, s_image_url >>
    /\ UNCHANGED << f_vars, r_vars, w_vars, t_vars, x_vars, a_vars >>

LensGetOk == s_pc = "lens_get" /\ ForSomeResponse(LAMBDA d : LensGetJson(d))

\* lines 116-128 when the request fails: results stays []
LensGetFails ==
    /\ s_pc = "lens_get"
    /\ \E failure \in HttpFailures :
          /\ s_calls' = Append(s_calls,
                               Request("lens", "google_lens", s_image_url, failure, 0))
          /\ s_pc' = IF Escapes(failure) THEN "raised" ELSE LensNext(<<>>)
    /\ s_results' = <<>>
    /\ UNCHANGED << s_n, s_api_key, s_parsed, s_ret, s_image_url >>
    /\ UNCHANGED << f_vars, r_vars, w_vars, t_vars, x_vars, a_vars >>

\* _search_serpapi_reverse, lines 253-256, then lines 91-97 when it gave None
RevUpload(outcome) ==
    /\ s_pc = "rev_upload"
    /\ s_calls' = Append(s_calls, Request("reverse", "upload", _upload_image("reverse", outcome), outcome, 0))
    /\ s_image_url' = _upload_image("reverse", outcome)
    /\ s_results' = <<>>
    /\ IF Escapes(outcome)
       THEN s_pc' = "raised" /\ s_ret' = s_ret
       ELSE IF HasUrl(_upload_image("reverse", outcome))
       THEN s_pc' = "rev_get" /\ s_ret' = s_ret
       ELSE s_pc' = "done" /\ s_ret' = Take(<<>>, s_n)
    /\ UNCHANGED << s_n, s_api_key, s_parsed >>
    /\ UNCHANGED << f_vars, r_vars, w_vars, t_vars, x_vars, a_vars >>

RevUploadOk == RevUpload("ok")

RevUploadFails == \E failure \in UploadFailures : RevUpload(failure)

\* lines 265-276 with a 200 response holding JSON d, then lines 90-97
RevGetJson(d) ==
    /\ s_pc = "rev_get"
    /\ \E results \in { _parse_serpapi_reverse_results(d, s_n) } :
           /\ s_calls' = Append(s_calls,
                 Request("reverse", "google_reverse_image", s_image_url, "ok",
                         Len(results)))
           /\ s_parsed' = [engine |-> "google_reverse_image", n |-> s_n, out |-> results]
           /\ s_results' = results
           /\ s_ret' = Take(results, s_n)
    /\ s_pc' = "done"
    /\ UNCHANGED << s_n, s_api_key, s_image_url >>
    /\ UNCHANGED << f_vars, r_vars, w_vars, t_vars, x_vars, a_vars >>

RevGetOk == s_pc = "rev_get" /\ ForSomeReverseResponse(LAMBDA d : RevGetJson(d))

RevGetFails ==
    /\ s_pc = "rev_get"
    /\ \E failure \in HttpFailures :
          /\ s_calls' = Append(s_calls,
                Request("reverse", "google_reverse_image", s_image_url, failure, 0))
          /\ s_pc' = IF Escapes(failure) THEN "raised" ELSE "done"
          /\ s_ret' = IF Escapes(failure) THEN s_ret ELSE Take(<<>>, s_n)
    /\ s_results' = <<>>
    /\ UNCHANGED << s_n, s_api_key, s_parsed, s_image_url >>
    /\ UNCHANGED << f_vars, r_vars, w_vars, t_vars, x_vars, a_vars >>

SearchNext ==
    \/ SearchStart
    \/ LensUploadOk
    \/ LensUploadFails
    \/ LensGetOk
    \/ LensGetFails
    \/ RevUploadOk
    \/ RevUploadFails
    \/ RevGetOk
    \/ RevGetFails

SpecSearch == SearchInit /\ [][SearchNext]_vars

(***************************************************************************)
(* run_web_scraping -> scrape_websites -> scrape_multiple -> scrape_page   *)
(***************************************************************************)
\* re.sub(r'[^\\w_.-]', '_', s): the class keeps the backslash, w, _, . and -
SafeChar(c) == IF Contains("\\w_.-", c) THEN c ELSE "_"

RECURSIVE SafeSub(_)
SafeSub(s) == IF s = "" THEN "" ELSE SafeChar(Head(s)) \o SafeSub(Tail(s))

safe_name(url) == Prefix(SafeSub(urlparse(url).netloc \o urlparse(url).path), 50)

\* What _take_screenshot returns: the file it wrote, named after safe_name
\* (the timestamp of the name is left out), or None.
_take_screenshot(url, saved) == IF saved THEN << safe_name(url) \o ".png" >> ELSE << >>

ScrapeCandidates ==
    << [title |-> "Widget - $9", url |-> "https://acme.io/a"],
       [title |-> "Gadget", url |-> "https://www.Beta-shop.org/w/1"],
       [title |-> "Forum", url |-> "http://forum.example.com"] >>

MaxUrls == 3

\* the lists of candidates handed to run_web_scraping
CandidateList(first, n) ==
    [i \in 1..n |-> ScrapeCandidates[((first + i - 2) % Len(ScrapeCandidates)) + 1]]

Paragraph60 == "Widgets  are sold\n in every colour and in every size you like."

Pages ==
    { [title |-> << "  Acme Widgets\n" >>,
       meta |-> << [content |-> "All about widgets"] >>,
       elements |-> << [tag |-> "h2", text |-> "Prices", within |-> ""],
                       [tag |-> "h1", text |-> " Widgets ", within |-> ""],
                       [tag |-> "h3", text |-> "Menu", within |-> "nav"],
                       [tag |-> "p", text |-> Paragraph60, within |-> ""],
                       [tag |-> "p", text |-> "Short.", within |-> ""] >>,
       main |-> << >>,
       body |-> << "Widgets\n \n\nBuy   now" >>],
      [title |-> << >>,
       meta |-> << >>,
       elements |-> << [tag |-> "h1", text |-> "FAQ", within |-> ""] >>,
       main |-> << "Post  body" >>,
       body |-> << "Header Post  body" >>] }

FetchErrors ==
    { [kind |-> "ReadTimeout", msg |-> "Read timed out. (read timeout=15)"],
      [kind |-> "ConnectTimeout", msg |-> "Connection to acme.io timed out. (connect timeout=15)"],
      [kind |-> "ConnectionError", msg |-> "Connection refused"],
      [kind |-> "HTTPError", msg |-> "404 Client Error: Not Found for url: https://acme.io/catalogue/widgets/garden/blue-widget-with-a-long-name?ref=lens"],
      [kind |-> "FeatureNotFound", msg |-> "Couldn't find a tree builder with the features you requested: html.parser. Do you need to install a parser library?"] }

ScrapeURLs == { ScrapeCandidates[i].url : i \in 1..Len(ScrapeCandidates) }

ContentOf == [u \in ScrapeURLs |-> [p \in Pages |-> ExtractedContent(u, p)]]

ScreenshotOf == [u \in ScrapeURLs |-> [saved \in BOOLEAN |-> _take_screenshot(u, saved)]]

\* a summary is left out when its url failed
SkipFailed(results, page_data) ==
    IF page_data.error # << >> THEN results ELSE Append(results, page_data)

ZeroBased(i, urls) == << i, Len(urls), urls[i + 1] >>

\* lines 220-226: the arguments of progress_callback for the url of index i
\* of enumerate(urls)
ProgressArgs(i, urls) == << i + 1, Len(urls), urls[i + 1] >>

\* results.append(data), line 228
AppendResult(results, page_data) == Append(results, page_data)

ScrapeInit ==
    /\ FilterIdle
    /\ RankIdle
    /\ SearchIdle
    /\ ScrapeIdle
    /\ ShotIdle
    /\ ExtractIdle
    /\ AppIdle

\* run_web_scraping up to the first iteration of scrape_multiple
RunWebScraping ==
    /\ w_pc = "idle"
    /\ \E first \in 1..Len(ScrapeCandidates), n \in 1..MaxUrls :
          /\ w_search_results' = CandidateList(first, n)
          /\ w_urls' = UrlsOf(CandidateList(first, n))
    /\ w_take_screenshots' = TRUE
    /\ w_pc' = "loop"
    /\ UNCHANGED << w_i, w_content, w_results, w_progress, w_outcomes >>
    /\ UNCHANGED << w_open, f_vars, r_vars, s_vars, t_vars, x_vars, a_vars >>

\* top of the loop: progress_callback(i + 1, total, url)
Notify ==
    /\ w_pc = "loop"
    /\ w_i < Len(w_urls)
    /\ w_progress' = Append(w_progress, ProgressArgs(w_i, w_urls))
    /\ w_pc' = "extract"
    /\ UNCHANGED << w_search_results, w_urls, w_take_screenshots, w_i, w_content,
                    w_results, w_outcomes >>
    /\ UNCHANGED << w_open, f_vars, r_vars, s_vars, t_vars, x_vars, a_vars >>

\* _extract_content, the page arrives and parses
ExtractOk ==
    /\ w_pc = "extract"
    /\ \E page \in Pages :
          /\ w_content' = ContentOf[w_urls[w_i + 1]][page]
          /\ w_outcomes' = Append(w_outcomes, [fetch |-> page, shot |-> "none"])
    /\ w_pc' = "screenshot"
    /\ UNCHANGED << w_search_results, w_urls, w_take_screenshots, w_i, w_results,
                    w_progress >>
    /\ UNCHANGED << w_open, f_vars, r_vars, s_vars, t_vars, x_vars, a_vars >>

\* _extract_content, _fetch_and_parse raises
ExtractFails ==
    /\ w_pc = "extract"
    /\ \E e \in FetchErrors :
          /\ w_content' = FailedContent(e)
          /\ w_outcomes' = Append(w_outcomes, [fetch |-> e, shot |-> "none"])
    /\ w_pc' = "screenshot"
    /\ UNCHANGED << w_search_results, w_urls, w_take_screenshots, w_i, w_results,
                    w_progress >>
    /\ UNCHANGED << w_open, f_vars, r_vars, s_vars, t_vars, x_vars, a_vars >>

\* scrape_page, line 54: _take_screenshot is entered and launches its
\* browser, or fails before it has one
ScreenshotStart ==
    /\ w_pc = "screenshot"
    /\ w_open' \in IF w_take_screenshots THEN { w_open, w_open + 1 } ELSE { w_open }
    /\ w_pc' = "browser"
    /\ UNCHANGED << w_search_results, w_urls, w_take_screenshots, w_i, w_content,
                    w_results, w_progress, w_outcomes >>
    /\ UNCHANGED << f_vars, r_vars, s_vars, t_vars, x_vars, a_vars >>

\* the rest of scrape_page and the append of scrape_multiple: the browser
\* is closed when _take_screenshot returns
Screenshot(saved) ==
    /\ w_pc = "browser"
    /\ saved => w_open > 0
    /\ w_open' = 0
    /\ w_results' = AppendResult(w_results,
          WebPageData(w_urls[w_i + 1], w_content,
             IF w_take_screenshots THEN ScreenshotOf[w_urls[w_i + 1]][saved] ELSE << >>))
    /\ w_outcomes' = [w_outcomes EXCEPT ![w_i + 1].shot =
                         IF saved THEN "saved" ELSE "failed"]
    /\ w_i' = w_i + 1
    /\ w_content' = NewContent
    /\ w_pc' = "loop"
    /\ UNCHANGED << w_search_results, w_urls, w_take_screenshots, w_progress >>
    /\ UNCHANGED << f_vars, r_vars, s_vars, t_vars, x_vars, a_vars >>

ScreenshotSaved == Screenshot(TRUE)

ScreenshotFails == Screenshot(FALSE)

\* return results
ScrapeReturn ==
    /\ w_pc = "loop"
    /\ w_i = Len(w_urls)
    /\ w_pc' = "done"
    /\ UNCHANGED << w_search_results, w_urls, w_take_screenshots, w_i, w_content,
                    w_results, w_progress, w_outcomes >>
    /\ UNCHANGED << w_open, f_vars, r_vars, s_vars, t_vars, x_vars, a_vars >>

ScrapeNext ==
    \/ RunWebScraping
    \/ Notify
    \/ ExtractOk
    \/ ExtractFails
    \/ ScreenshotStart
    \/ ScreenshotSaved
    \/ ScreenshotFails
    \/ ScrapeReturn

SpecScrape == ScrapeInit /\ [][ScrapeNext]_vars

(***************************************************************************)
(* _take_screenshot, one step per call it makes into Playwright            *)
(***************************************************************************)
MaxShots == 2      \* calls of _take_screenshot in a row
MaxClock == 64     \* seconds the clock may reach

ShotURLs == { "https://acme.io/a", "https://beta.io/b", "http://[acme.io/a" }

\* what page.goto and page.screenshot raise
PlaywrightErrors == { "PlaywrightTimeout", "PlaywrightError" }

\* line 171: os.path.join(self.output_dir, f"{safe_name}_{int(time.time())}.png")
screenshot_path(url, time) == safe_name(url) \o "_" \o ToString(time) \o ".png"

\* page.screenshot(path=...) writes the file, over one of the same name
WriteFile(files, path, url, call) ==
    { f \in files : f.path # path } \cup { [path |-> path, of |-> url, call |-> call] }

ReturnsPathAlways(path, files) == TRUE

\* line 199: os.path.exists(screenshot_path)
FileExists(path, files) == \E f \in files : f.path = path

\* every exception of the first attempt leads to the retry
RetriesOnAnyError(class) == TRUE

\* except PlaywrightTimeout, line 189
IsPlaywrightTimeout(class) == "PlaywrightTimeout" \in ExceptionBases[class]

NoTimePasses(seconds) == 0

\* the seconds a step takes at least: time.sleep(2), timeout=30000
Elapsed(seconds) == seconds

\* browser.close(), line 197
CloseBrowser(sessions) == [sessions EXCEPT ![Len(sessions)] = "closed"]

LeavesBrowsers(sessions) == sessions

\* leaving `with sync_playwright()`: the driver stops, and with it every
\* browser it launched that is still open
StopPlaywright(sessions) ==
    [k \in 1..Len(sessions) |-> "closed"]

\* lines 182 and 192: the arguments of the two page.goto calls
FirstNavigation == [wait_until |-> "networkidle", timeout |-> 30000]

RetryNavigation == [wait_until |-> "domcontentloaded", timeout |-> 15000]

\* the page.goto call that a step makes, whether it returns or raises
NavigationOf(step) ==
    IF step \in { "goto1", "goto1_timeout", "goto1_error" } THEN << FirstNavigation >>
    ELSE IF step \in { "goto2", "goto2_error" } THEN << RetryNavigation >>
    ELSE << >>

\* the name under which a step that raised class is recorded
RaisedStep(step, class) ==
    step \o (IF class = "PlaywrightTimeout" THEN "_timeout" ELSE "_error")

\* the step, named step, goes to pc with exception exc propagating ("" for
\* none)
ShotGoes(pc, exc, step) ==
    /\ t_pc' = pc
    /\ t_exc' = exc
    /\ t_steps' = Append(t_steps, step)
    /\ t_navs' = t_navs \o NavigationOf(step)
    /\ UNCHANGED << t_url, t_calls >>
    /\ UNCHANGED << f_vars, r_vars, s_vars, w_vars, x_vars, a_vars >>

ShotInit ==
    /\ FilterIdle
    /\ RankIdle
    /\ SearchIdle
    /\ ScrapeIdle
    /\ ExtractIdle
    /\ AppIdle
    /\ t_pc = "call"
    /\ t_url \in ShotURLs
    /\ t_path = NoPath /\ t_exc = "" /\ t_ret = << >>
    /\ t_clock = 0 /\ t_files = {} /\ t_sessions = << >> /\ t_owner = << >>
    /\ t_calls = 1
    /\ t_steps = << >>
    /\ t_navs = << >>

\* lines 168-171
ShotPath ==
    /\ t_pc = "call"
    /\ IF urlparse(t_url).error
       THEN t_path' = t_path /\ ShotGoes("except", "ValueError", "path_error")
       ELSE t_path' = screenshot_path(t_url, t_clock) /\ ShotGoes("playwright", "", "path")
    /\ UNCHANGED << t_ret, t_clock, t_files, t_sessions, t_owner >>

\* line 173: with sync_playwright() as p
PlaywrightStarts ==
    /\ t_pc = "playwright"
    /\ ShotGoes("launch", "", "playwright")
    /\ UNCHANGED << t_path, t_ret, t_clock, t_files, t_sessions, t_owner >>

PlaywrightFails ==
    /\ t_pc = "playwright"
    /\ ShotGoes("except", "PlaywrightError", "playwright_error")
    /\ UNCHANGED << t_path, t_ret, t_clock, t_files, t_sessions, t_owner >>

\* line 174: browser = p.chromium.launch(headless=True)
LaunchOk ==
    /\ t_pc = "launch"
    /\ t_sessions' = Append(t_sessions, "open")
    /\ t_owner' = Append(t_owner, t_calls)
    /\ ShotGoes("context", "", "launch")
    /\ UNCHANGED << t_path, t_ret, t_clock, t_files >>

LaunchFails ==
    /\ t_pc = "launch"
    /\ ShotGoes("with_exit", "PlaywrightError", "launch_error")
    /\ UNCHANGED << t_path, t_ret, t_clock, t_files, t_sessions, t_owner >>

\* lines 175-179: browser.new_context(...), context.new_page()
ContextOk ==
    /\ t_pc = "context"
    /\ ShotGoes("goto1", "", "context")
    /\ UNCHANGED << t_path, t_ret, t_clock, t_files, t_sessions, t_owner >>

\* they are outside the try of line 181, so its finally does not run
ContextFails ==
    /\ t_pc = "context"
    /\ ShotGoes("with_exit", "PlaywrightError", "context_error")
    /\ UNCHANGED << t_path, t_ret, t_clock, t_files, t_sessions, t_owner >>

\* lines 182-183: page.goto(url, wait_until='networkidle', timeout=30000),
\* time.sleep(2)
Goto1Ok ==
    /\ t_pc = "goto1"
    /\ t_clock + Elapsed(2) <= MaxClock
    /\ t_clock' = t_clock + Elapsed(2)
    /\ ShotGoes("shot1", "", "goto1")
    /\ UNCHANGED << t_path, t_ret, t_files, t_sessions, t_owner >>

\* an exception in the try of line 181: to line 189 when it is a
\* PlaywrightTimeout (30 seconds have passed), else through the finally
FirstAttemptRaises(step, class) ==
    IF IsPlaywrightTimeout(class)
    THEN /\ t_clock + Elapsed(30) <= MaxClock
         /\ t_clock' = t_clock + Elapsed(30)
         /\ ShotGoes("goto2", "", RaisedStep(step, class))
    ELSE /\ t_clock' = t_clock
         /\ ShotGoes("finally", class, RaisedStep(step, class))

Goto1Raises ==
    /\ t_pc = "goto1"
    /\ \E class \in PlaywrightErrors : FirstAttemptRaises("goto1", class)
    /\ UNCHANGED << t_path, t_ret, t_files, t_sessions, t_owner >>

\* line 186: page.screenshot(path=screenshot_path, full_page=False)
Shot1Ok ==
    /\ t_pc = "shot1"
    /\ t_files' = WriteFile(t_files, t_path, t_url, t_calls)
    /\ ShotGoes("finally", "", "shot1")
    /\ UNCHANGED << t_path, t_ret, t_clock, t_sessions, t_owner >>

Shot1Raises ==
    /\ t_pc = "shot1"
    /\ \E class \in PlaywrightErrors : FirstAttemptRaises("shot1", class)
    /\ UNCHANGED << t_path, t_ret, t_files, t_sessions, t_owner >>

\* line 192: page.goto(url, wait_until='domcontentloaded', timeout=15000)
Goto2Ok ==
    /\ t_pc = "goto2"
    /\ ShotGoes("shot2", "", "goto2")
    /\ UNCHANGED << t_path, t_ret, t_clock, t_files, t_sessions, t_owner >>

\* lines 194-195: except Exception: pass
RetryRaises(step, class) ==
    IF Caught(class) THEN ShotGoes("finally", "", step \o "_error")
    ELSE ShotGoes("finally", class, step \o "_error")

Goto2Raises ==
    /\ t_pc = "goto2"
    /\ \E class \in PlaywrightErrors : RetryRaises("goto2", class)
    /\ UNCHANGED << t_path, t_ret, t_clock, t_files, t_sessions, t_owner >>

\* line 193
Shot2Ok ==
    /\ t_pc = "shot2"
    /\ t_files' = WriteFile(t_files, t_path, t_url, t_calls)
    /\ ShotGoes("finally", "", "shot2")
    /\ UNCHANGED << t_path, t_ret, t_clock, t_sessions, t_owner >>

Shot2Raises ==
    /\ t_pc = "shot2"
    /\ \E class \in PlaywrightErrors : RetryRaises("shot2", class)
    /\ UNCHANGED << t_path, t_ret, t_clock, t_files, t_sessions, t_owner >>

\* lines 196-197: finally: browser.close()
Finally ==
    /\ t_pc = "finally"
    /\ t_sessions' = CloseBrowser(t_sessions)
    /\ ShotGoes("with_exit", t_exc, "close")
    /\ UNCHANGED << t_path, t_ret, t_clock, t_files, t_owner >>

\* the end of the with block of line 173
WithExit ==
    /\ t_pc = "with_exit"
    /\ t_sessions' = StopPlaywright(t_sessions)
    /\ ShotGoes(IF t_exc # "" THEN "except" ELSE "exists", t_exc, "stop")
    /\ UNCHANGED << t_path, t_ret, t_clock, t_files, t_owner >>

\* lines 199-200 and 205
ShotReturn ==
    /\ t_pc = "exists"
    /\ t_ret' = IF FileExists(t_path, t_files) THEN << t_path >> ELSE << >>
    /\ ShotGoes("ret", "", "return")
    /\ UNCHANGED << t_path, t_clock, t_files, t_sessions, t_owner >>

\* lines 202-205: except Exception as e: print(...); return None
ShotExcept ==
    /\ t_pc = "except"
    /\ t_ret' = << >>
    /\ IF Caught(t_exc) THEN ShotGoes("ret", "", "except")
       ELSE ShotGoes("raised", t_exc, "raise")
    /\ UNCHANGED << t_path, t_clock, t_files, t_sessions, t_owner >>

\* the scraper is called again, at once or a second later
NextShot ==
    /\ t_pc = "ret"
    /\ t_calls < MaxShots
    /\ t_pc' = "call"
    /\ t_url' \in ShotURLs
    /\ t_calls' = t_calls + 1
    /\ t_clock' \in { c \in { t_clock, t_clock + 1 } : c <= MaxClock }
    /\ t_path' = NoPath
    /\ t_exc' = ""
    /\ t_ret' = << >>
    /\ t_steps' = << >>
    /\ t_navs' = << >>
    /\ UNCHANGED << t_files, t_sessions, t_owner >>
    /\ UNCHANGED << f_vars, r_vars, s_vars, w_vars, x_vars, a_vars >>

ShotNext ==
    \/ ShotPath
    \/ PlaywrightStarts
    \/ PlaywrightFails
    \/ LaunchOk
    \/ LaunchFails
    \/ ContextOk
    \/ ContextFails
    \/ Goto1Ok
    \/ Goto1Raises
    \/ Shot1Ok
    \/ Shot1Raises
    \/ Goto2Ok
    \/ Goto2Raises
    \/ Shot2Ok
    \/ Shot2Raises
    \/ Finally
    \/ WithExit
    \/ ShotReturn
    \/ ShotExcept
    \/ NextShot

SpecShot == ShotInit /\ [][ShotNext]_vars

(***************************************************************************)
(* scrape_page(url, take_screenshots=False) on one page: the pages are     *)
(* put together from titles, description tags, lists of elements and       *)
(* texts, some of them longer than the cuts of the extractors.             *)
(***************************************************************************)
RECURSIVE Repeat(_, _)
Repeat(s, n) ==
    IF n <= 0 THEN ""
    ELSE IF n = 1 THEN s
    ELSE Repeat(s, n \div 2) \o Repeat(s, n - (n \div 2))

\* lengths of the inputs, in repetitions of a unit or in elements
DescriptionRepeats == 86
HeadingCount == 12
ParagraphCount == 22
TextRepeats == 500

ExtractURLs ==
    { "https://acme.io/a", "https://www.Beta-shop.org/w/1",
      "http://shop.example.com:8080/p?id=1" }

ExtractTitles == { << >>, << "  Acme Widgets\n" >>, << "" >>, << " \n" >> }

\* no tag; a tag without content; with an empty content; with contents of
\* 17, 500 and DescriptionRepeats * 7 characters
ExtractMetas ==
    { << >>,
      << [name |-> "description"] >>,
      << [name |-> "description", content |-> ""] >>,
      << [name |-> "description", content |-> "All about widgets"] >>,
      << [name |-> "description", content |-> Repeat("0123456789", 50)] >>,
      << [name |-> "description", content |-> Repeat("abcdefg", DescriptionRepeats)] >> }

\* 56 characters, 41 after re.sub(r'\s+', ' ', text)
SparseParagraph == "Blue  widgets \n\n  are   sold   here   in   every   size."

Element(tag, text) == [tag |-> tag, text |-> text, within |-> ""]

ManyHeadings ==
    [i \in 1..HeadingCount |-> Element("h3", " Detail " \o ToString(i))]
    \o << Element("h2", Repeat("A very long heading ", 11)), Element("h2", "FAQ") >>
    \o [i \in 1..HeadingCount |-> Element("h1", "Topic " \o ToString(i) \o "\n")]
    \o [i \in 1..HeadingCount |-> Element("h2", "Part " \o ToString(i))]

ManyParagraphs ==
    << Element("p", Repeat(" Widgets  are\n sold in  every \t colour.", 16)),
       Element("p", "Short.") >>
    \o [i \in 1..ParagraphCount |->
          Element("p", ToString(i) \o ". " \o Paragraph60)]

ExtractElements ==
    { << Element("h2", "Prices"), Element("h1", " Widgets "),
         [tag |-> "h3", text |-> "Menu", within |-> "nav"],
         Element("p", Paragraph60), Element("p", "Short."),
         Element("p", SparseParagraph) >>,
      ManyHeadings,
      ManyParagraphs }

\* [main, body]: no body; a short body; an element of class content; a body
\* of TextRepeats * 12 characters; an element of class content of exactly
\* 5000 characters after the substitutions
ExtractTexts ==
    { << << >>, << >> >>,
      << << >>, << "Widgets\n \n\nBuy   now" >> >>,
      << << "Post  body" >>, << "Header Post  body" >> >>,
      << << >>, << Repeat("ab  cd\n \nxy\nz", TextRepeats) >> >>,
      << << Repeat("0123456789", 500) >>, << "Header" >> >> }

ExtractPages ==
    { [title |-> t, meta |-> m, elements |-> e, main |-> x[1], body |-> x[2]] :
        t \in ExtractTitles, m \in ExtractMetas, e \in ExtractElements,
        x \in ExtractTexts }

\* what an extractor raises on a tree it does not expect
StepErrors ==
    { [kind |-> "AttributeError", msg |-> "'NoneType' object has no attribute 'get_text'"],
      [kind |-> "ValueError", msg |-> "Invalid IPv6 URL"] }

ExtractInit ==
    /\ FilterIdle
    /\ RankIdle
    /\ SearchIdle
    /\ ScrapeIdle
    /\ ShotIdle
    /\ AppIdle
    /\ x_pc = "call"
    /\ x_url \in ExtractURLs
    /\ x_page \in ExtractPages
    /\ x_result = << >>
    /\ x_fault = << >>

\* scrape_page, lines 50-67, when the fetch gives x_page
ScrapePageOk ==
    /\ x_pc = "call"
    /\ x_result' = WebPageData(x_url, ExtractedContent(x_url, x_page), << >>)
    /\ x_pc' = "ret"
    /\ UNCHANGED << x_url, x_page, x_fault >>
    /\ UNCHANGED << f_vars, r_vars, s_vars, w_vars, t_vars, a_vars >>

\* scrape_page when the fetch or the parse raises
ScrapePageFails ==
    /\ x_pc = "call"
    /\ \E e \in FetchErrors :
          /\ x_result' = WebPageData(x_url, FailedContent(e), << >>)
          /\ x_fault' = [step |-> 0, e |-> e]
    /\ x_pc' = "ret"
    /\ UNCHANGED << x_url, x_page >>
    /\ UNCHANGED << f_vars, r_vars, s_vars, w_vars, t_vars, a_vars >>

\* scrape_page when one of the five extractors raises after the fetch
ScrapePageStepFails ==
    /\ x_pc = "call"
    /\ \E step \in 1..5, e \in StepErrors :
          /\ x_result' = WebPageData(x_url, PartialContent(x_url, x_page, step, e), << >>)
          /\ x_fault' = [step |-> step, e |-> e]
    /\ x_pc' = "ret"
    /\ UNCHANGED << x_url, x_page >>
    /\ UNCHANGED << f_vars, r_vars, s_vars, w_vars, t_vars, a_vars >>

ExtractNext ==
    \/ ScrapePageOk
    \/ ScrapePageFails
    \/ ScrapePageStepFails

SpecExtract == ExtractInit /\ [][ExtractNext]_vars

(***************************************************************************)
(* app.py: main, process_image and the three steps it calls.  One script   *)
(* run is one Main step, followed by the steps of process_image when the   *)
(* script calls it.  search_image, scrape_websites and create_presentation *)
(* return or raise.                                                        *)
(***************************************************************************)
MaxRuns == 3       \* calls of process_image in one session

UploadedPath == "/tmp/tmpa1/photo.png"

\* os.path.join(tempfile.gettempdir(), output_filename), lines 389-390
OutputPath(timestamp) == "/tmp/image_search_results_" \o ToString(timestamp) \o ".pptx"

\* what search_image, scrape_websites and create_presentation raise
AppErrors ==
    { [kind |-> "OSError", msg |-> "[Errno 28] No space left on device"],
      [kind |-> "ValueError", msg |-> "cannot identify image file"],
      [kind |-> "PlaywrightError", msg |-> "Executable doesn't exist"] }

HandlesValueErrorOnly(e) == IsInstance(e, "ValueError")

\* except Exception as e, line 422
Handled(e) == IsInstance(e, "Exception")

ProceedsAnyway(search_results) == FALSE

\* if not search_results, lines 341 and 415
NoResults(search_results) == search_results = << >>

\* scrape_websites gives one WebPageData for each url, in order
ScrapedPages(urls) == [i \in 1..Len(urls) |-> WebPageData(urls[i], NewContent, << >>)]

AppInit ==
    /\ FilterIdle
    /\ RankIdle
    /\ SearchIdle
    /\ ScrapeIdle
    /\ ShotIdle
    /\ ExtractIdle
    /\ AppIdle

\* main, lines 463-479: the uploader holds a file or not, the button is
\* pressed or not, and process_image is called when processing is set
Main ==
    /\ a_pc = "idle"
    /\ \E uploaded \in BOOLEAN, pressed \in BOOLEAN, n \in 1..MaxCount :
          /\ a_image_path' = IF uploaded THEN << UploadedPath >> ELSE a_image_path
          /\ a_pressed' = (uploaded /\ pressed)
          /\ IF (a_processing \/ (uploaded /\ pressed)) /\ a_image_path' # << >>
             THEN /\ a_run < MaxRuns
                  /\ a_processing' = TRUE
                  /\ a_pc' = "search"
                  /\ a_run' = a_run + 1
                  /\ a_num_results' = n
                  /\ a_local' = NoLocals
                  /\ a_steps' = << >>
                  /\ a_shown' = << >>
             ELSE /\ a_processing' = (a_processing \/ (uploaded /\ pressed))
                  /\ UNCHANGED << a_pc, a_run, a_num_results, a_local, a_steps, a_shown >>
    /\ UNCHANGED << a_search_results, a_web_data, a_ppt_path, a_made >>
    /\ UNCHANGED << f_vars, r_vars, s_vars, w_vars, t_vars, x_vars >>

\* the except clause of process_image, lines 422-424
Except(e) ==
    /\ a_pc' = IF Handled(e) THEN "idle" ELSE "raised"
    /\ a_processing' = IF Handled(e) THEN FALSE ELSE a_processing
    /\ a_shown' = IF Handled(e) THEN Append(a_shown, "error") ELSE a_shown

\* run_image_search, lines 331-352, then line 415 of process_image
RunImageSearchReturns ==
    /\ a_pc = "search"
    /\ a_steps' = Append(a_steps, "search")
    /\ \E first \in 1..Len(ScrapeCandidates), n \in 0..a_num_results :
          \E search_results \in { CandidateList(first, n) } :
             IF NoResults(search_results)
             THEN /\ a_shown' = Append(a_shown, "warning")
                  /\ a_processing' = FALSE
                  /\ a_pc' = "idle"
                  /\ UNCHANGED << a_search_results, a_local, a_made >>
             ELSE /\ a_search_results' = << search_results >>
                  /\ a_local' = [a_local EXCEPT !.search_results = search_results]
                  /\ a_made' = [a_made EXCEPT !.search_results = a_run]
                  /\ a_pc' = "scrape"
                  /\ UNCHANGED << a_shown, a_processing >>
    /\ UNCHANGED << a_image_path, a_web_data, a_ppt_path, a_num_results, a_run, a_pressed >>
    /\ UNCHANGED << f_vars, r_vars, s_vars, w_vars, t_vars, x_vars >>

\* search_image raises at line 339
RunImageSearchRaises ==
    /\ a_pc = "search"
    /\ a_steps' = Append(a_steps, "search")
    /\ \E e \in AppErrors : Except(e)
    /\ UNCHANGED << a_image_path, a_search_results, a_web_data, a_ppt_path,
                    a_num_results, a_local, a_run, a_pressed, a_made >>
    /\ UNCHANGED << f_vars, r_vars, s_vars, w_vars, t_vars, x_vars >>

\* run_web_scraping, lines 355-378
ScrapeWebsitesReturns ==
    /\ a_pc = "scrape"
    /\ a_steps' = Append(a_steps, "scrape")
    /\ a_web_data' = << ScrapedPages(UrlsOf(a_local.search_results)) >>
    /\ a_local' = [a_local EXCEPT !.web_data = ScrapedPages(UrlsOf(a_local.search_results))]
    /\ a_made' = [a_made EXCEPT !.web_data = a_run]
    /\ a_pc' = "generate"
    /\ UNCHANGED << a_image_path, a_processing, a_search_results, a_ppt_path,
                    a_num_results, a_run, a_pressed, a_shown >>
    /\ UNCHANGED << f_vars, r_vars, s_vars, w_vars, t_vars, x_vars >>

\* tempfile.mkdtemp or scrape_websites raises, lines 362-373
ScrapeWebsitesRaises ==
    /\ a_pc = "scrape"
    /\ a_steps' = Append(a_steps, "scrape")
    /\ \E e \in AppErrors : Except(e)
    /\ UNCHANGED << a_image_path, a_search_results, a_web_data, a_ppt_path,
                    a_num_results, a_local, a_run, a_pressed, a_made >>
    /\ UNCHANGED << f_vars, r_vars, s_vars, w_vars, t_vars, x_vars >>

\* run_ppt_generation, lines 381-402, then line 420 of process_image
CreatePresentationReturns ==
    /\ a_pc = "generate"
    /\ a_steps' = Append(a_steps, "generate")
    /\ a_ppt_path' = << OutputPath(a_run) >>
    /\ a_made' = [a_made EXCEPT !.ppt_path = a_run]
    /\ a_shown' = Append(a_shown, "complete")
    /\ a_processing' = FALSE
    /\ a_pc' = "idle"
    /\ UNCHANGED << a_image_path, a_search_results, a_web_data, a_num_results,
                    a_local, a_run, a_pressed >>
    /\ UNCHANGED << f_vars, r_vars, s_vars, w_vars, t_vars, x_vars >>

\* create_presentation raises at line 392
CreatePresentationRaises ==
    /\ a_pc = "generate"
    /\ a_steps' = Append(a_steps, "generate")
    /\ \E e \in AppErrors : Except(e)
    /\ UNCHANGED << a_image_path, a_search_results, a_web_data, a_ppt_path,
                    a_num_results, a_local, a_run, a_pressed, a_made >>
    /\ UNCHANGED << f_vars, r_vars, s_vars, w_vars, t_vars, x_vars >>

AppNext ==
    \/ Main
    \/ RunImageSearchReturns
    \/ RunImageSearchRaises
    \/ ScrapeWebsitesReturns
    \/ ScrapeWebsitesRaises
    \/ CreatePresentationReturns
    \/ CreatePresentationRaises

SpecApp == AppInit /\ [][AppNext]_vars

ContainsDimensionToken(u) ==
    \E j \in 3..(Len(u) - 2) :
        /\ CharAt(u, j) = "x"
        /\ \A k \in { j - 2, j - 1, j + 1, j + 2 } : IsDigit(CharAt(u, k))

\* C5: a url that contains a pixel-dimension token is rejected, wherever in
\* the url the token occurs.
C5_DimensionTokenRejected ==
    (f_pc = "ret" /\ ContainsDimensionToken(f_url)) => ~f_ret

\* The token sits in the query string of a url that passes every other check.
C5_Witness ==
    /\ f_pc = "ret"
    /\ f_url = "https://acme.io/x?s=100x100"
    /\ f_seen = {}
    /\ ~f_ret

(***************************************************************************)
(* Claims about the Lens parser (Spec)                                     *)
(***************************************************************************)
PairsOf(list) == { p \in (1..Len(list)) \X (1..Len(list)) : p[1] < p[2] }

\* C1: no two candidates of a returned list have the same host, hosts
\* compared case-insensitively.
C1_UniqueHosts ==
    r_pc = "ret" =>
        \A p \in PairsOf(r_ret) : DomainOf(r_ret[p[1]].url) # DomainOf(r_ret[p[2]].url)

DenyLists == excluded_domains \cup image_domains \cup social_domains \cup video_domains

RawLinks(d, key) ==
    { Get(Get(d, key, <<>>)[i], "link", "") : i \in 1..Len(Get(d, key, <<>>)) }

GroupOf(r) ==
    CASE r.origin[1] = 1 -> 1
      [] r.origin[1] = 2 ->
            IF \E shop \in SHOPPING_DOMAINS : Contains(DomainOf(r.url), shop) THEN 2 ELSE 3
      [] r.origin[1] = 3 -> 4
      [] r.origin[1] = 4 -> 5

\* a comes before b: an earlier group, or the same group and raw order
Before(a, b) ==
    \/ GroupOf(a) < GroupOf(b)
    \/ GroupOf(a) = GroupOf(b) /\ a.origin[2] < b.origin[2]

\* C6: the returned list is the first num_results elements of the admitted
\* items laid out as tier 1, tier-2 shopping, tier-2 other, tier 3, tier 4,
\* each group in its raw order.
C6_TierOrder ==
    r_pc = "ret" =>
        LET admitted == shopping_results \o other_results
        IN  /\ \A p \in PairsOf(admitted) : Before(admitted[p[1]], admitted[p[2]])
            /\ Len(r_ret) = IF Len(admitted) < num_results THEN Len(admitted)
                            ELSE num_results
            /\ \A i \in 1..Len(r_ret) : r_ret[i] = admitted[i]

\* A tier-2 item on a shopping host was moved ahead of an earlier tier-2 item.
C6_Witness ==
    /\ r_pc = "ret"
    /\ \E p \in PairsOf(r_ret) :
          /\ r_ret[p[1]].origin[1] = 2
          /\ r_ret[p[2]].origin[1] = 2
          /\ r_ret[p[1]].origin[2] > r_ret[p[2]].origin[2]

\* The title the claim gives a tier-1 item
ClaimedShoppingTitle(item, url) ==
    IF Get(item, "price", "") # ""
    THEN Get(item, "title", "") \o " - " \o item.price
    ELSE IF Get(item, "title", "") # "" THEN item.title
    ELSE urlparse(url).netloc

SpecExample ==
    "shopping_results" :>
        << [link |-> "https://amazon.com/x", title |-> "Widget", price |-> "$9"] >>

\* C8: a tier-1 candidate's title is '<title> - <price>' when the item has
\* a price, else the item's title, else the url's host; the response of the
\* spec's example with num_results 3 yields exactly one candidate,
\* 'Widget - $9' at https://amazon.com/x.
C8_ShoppingTitle ==
    r_pc = "ret" =>
        /\ \A i \in 1..Len(r_ret) :
              r_ret[i].origin[1] = 1 =>
                 r_ret[i].title =
                    ClaimedShoppingTitle(data.shopping_results[r_ret[i].origin[2]], r_ret[i].url)
        /\ (data = SpecExample /\ num_results = 3) =>
              PublicList(r_ret) =
                 << [title |-> "Widget - $9", url |-> "https://amazon.com/x"] >>

C8_Witness ==
    /\ r_pc = "ret"
    /\ data = SpecExample
    /\ num_results = 3
    /\ Len(r_ret) = 1

(***************************************************************************)
(* Claims about calls in a row (SpecCalls)                                 *)
(***************************************************************************)
\* C7: a call returns what an earlier call with the same response and the
\* same num_results returned, whatever calls were made in between.
C7_SameInputSameOutput ==
    (r_pc = "ret" /\ r_kept # <<>>) =>
        ((r_kept[1].data = data /\ r_kept[1].num_results = num_results)
            => r_kept[1].ret = PublicList(r_ret))

\* The same non-empty answer twice, with a call on another input in between.
C7_Witness ==
    /\ r_pc = "ret"
    /\ r_kept # <<>>
    /\ r_kept[1].data = data
    /\ r_kept[1].num_results = num_results
    /\ r_ret # <<>>
    /\ seen_domains # {}

(***************************************************************************)
(* Claims about search_by_image (SpecSearch)                               *)
(***************************************************************************)
\* C2: a parser called with n returns at most n candidates, and
\* search_by_image returns at most num_results candidates, on the Lens path
\* and on the reverse-image path.
C2_AtMostDesiredCount ==
    /\ s_parsed.engine # "none" => Len(s_parsed.out) <= s_parsed.n
    /\ s_pc = "done" => Len(s_ret) <= s_n

\* The Lens parser admitted more than it may return, and search_by_image
\* cut its regrouped list again.
C2_Witness ==
    /\ s_pc = "done"
    /\ s_parsed.engine = "google_lens"
    /\ Len(s_parsed.out) = s_parsed.n
    /\ Len(s_ret) = s_n
    /\ Len(s_ret) < Len(s_parsed.out)

(***************************************************************************)
(* Claims about scraping (SpecScrape)                                      *)
(***************************************************************************)
IsFetchError(o) == "kind" \in DOMAIN o

\* the url at index i failed entirely: no page and no screenshot
FailedEntirely(i) == IsFetchError(w_outcomes[i].fetch) /\ w_outcomes[i].shot = "failed"

\* the summary of a url as its own fetch and its own screenshot determine it
SummaryAlone(url, o) ==
    WebPageData(url,
                IF IsFetchError(o.fetch) THEN FailedContent(o.fetch)
                ELSE ExtractedContent(url, o.fetch),
                _take_screenshot(url, o.shot = "saved"))

\* C9: scrape_multiple returns one summary per url, in the order of the urls
\* and so of the candidates; a url that failed entirely has a summary with
\* error set at its index, and every summary is what its own url's fetch and
\* screenshot make it, whatever happened to the other urls.
C9_OneSummaryPerUrl ==
    w_pc = "done" =>
        /\ Len(w_results) = Len(w_urls)
        /\ Len(w_results) = Len(w_search_results)
        /\ \A i \in 1..Len(w_results) :
              /\ w_results[i].url = w_urls[i]
              /\ w_results[i].url = w_search_results[i].url
              /\ FailedEntirely(i) => w_results[i].error # << >>
              /\ w_results[i] = SummaryAlone(w_urls[i], w_outcomes[i])

\* three urls, the second failed entirely, the first and the third did not
C9_Witness ==
    /\ w_pc = "done"
    /\ Len(w_results) = 3
    /\ FailedEntirely(2)
    /\ w_results[2].error # << >>
    /\ ~IsFetchError(w_outcomes[1].fetch) /\ w_outcomes[1].shot = "saved"
    /\ ~IsFetchError(w_outcomes[3].fetch) /\ w_outcomes[3].shot = "saved"

TimeoutKinds == { "ReadTimeout", "ConnectTimeout" }

NetworkKinds == { "ConnectionError", "HTTPError" }

First100(s) == IF Len(s) <= 100 THEN s ELSE SubSeq(s, 1, 100)

ClaimedError(e) ==
    IF e.kind \in TimeoutKinds THEN "Request timed out"
    ELSE IF e.kind \in NetworkKinds THEN "Request error: " \o First100(e.msg)
    ELSE "Error: " \o First100(e.msg)

\* C10: when the fetch of the page fails, _extract_content returns a dict with
\* title, meta_description and main_content empty, headings and paragraphs
\* empty, and error "Request timed out" for a timeout, "Request error: " and
\* the first 100 characters of the message for another network or non-2xx
\* error, "Error: " and the first 100 characters for any other exception.
C10_FetchFailureContent ==
    (w_pc = "screenshot" /\ IsFetchError(w_outcomes[w_i + 1].fetch)) =>
        /\ w_content.title = ""
        /\ w_content.meta_description = ""
        /\ w_content.main_content = ""
        /\ w_content.headings = << >>
        /\ w_content.paragraphs = << >>
        /\ w_content.error = << ClaimedError(w_outcomes[w_i + 1].fetch) >>

\* The fetch of the second url ran into a connect timeout, which is both a
\* Timeout and a ConnectionError; the first url's ended in an HTTP error
\* whose message is longer than 100 characters.
C10_Witness ==
    /\ w_pc = "screenshot"
    /\ w_i = 1
    /\ w_outcomes[2].fetch \in FetchErrors
    /\ w_outcomes[2].fetch.kind = "ConnectTimeout"
    /\ w_content.error = << "Request timed out" >>
    /\ w_outcomes[1].fetch \in FetchErrors
    /\ w_outcomes[1].fetch.kind = "HTTPError"
    /\ Len(w_outcomes[1].fetch.msg) > 100
    /\ Len(w_results[1].error[1]) = Len("Request error: ") + 100

(***************************************************************************)
(* More claims about search_by_image (SpecSearch)                          *)
(***************************************************************************)
IsSearch(c) == c.request # "upload"

\* C11: search_by_image never raises to its caller; when the provider is
\* not reachable, times out, answers with a status other than 200 or with
\* malformed JSON, in the Lens attempt or in the reverse-image attempt, the
\* call still returns, and it returns the empty list when no search request
\* of the call was answered.
C11_NeverRaises ==
    /\ s_pc # "raised"
    /\ s_pc = "done" =>
          ((\A j \in 1..Len(s_calls) : IsSearch(s_calls[j]) => s_calls[j].outcome # "ok")
              => s_ret = <<>>)

\* The Lens request timed out, the reverse-image request got malformed JSON.
C11_Witness ==
    /\ s_pc = "done"
    /\ Len(s_calls) = 4
    /\ s_calls[2].request = "google_lens" /\ s_calls[2].outcome = "timeout"
    /\ s_calls[4].request = "google_reverse_image" /\ s_calls[4].outcome = "not_a_dict"
    /\ s_ret = <<>>

\* C12: a search request follows an upload of the same attempt that returned
\* a url, and sends that url; after an upload that failed no search request
\* of that attempt is sent and the attempt gives the empty list.
C12_SearchOnlyAfterUpload ==
    /\ \A j \in 1..Len(s_calls) :
          IsSearch(s_calls[j]) =>
             /\ j > 1
             /\ s_calls[j - 1].request = "upload"
             /\ s_calls[j - 1].attempt = s_calls[j].attempt
             /\ s_calls[j - 1].outcome = "ok"
             /\ s_calls[j - 1].url # << >>
             /\ s_calls[j].url = s_calls[j - 1].url
    /\ \A j \in 1..Len(s_calls) :
          (s_calls[j].request = "upload" /\ s_calls[j].outcome # "ok") =>
             /\ \A k \in (j + 1)..Len(s_calls) : s_calls[k].attempt # s_calls[j].attempt
             /\ (j = Len(s_calls) /\ s_pc = "rev_upload") => s_results = <<>>
             /\ (j = Len(s_calls) /\ s_pc = "done") => s_ret = <<>>

\* The Lens upload failed, the second upload gave a url and the
\* reverse-image search was sent with it.
C12_Witness ==
    /\ s_pc = "done"
    /\ Len(s_calls) = 3
    /\ s_calls[1].request = "upload" /\ s_calls[1].outcome = "host_error"
    /\ s_calls[2].request = "upload" /\ s_calls[2].outcome = "ok"
    /\ s_calls[3].request = "google_reverse_image"
    /\ s_calls[3].url = s_calls[2].url

\* C20: the Lens attempt comes first; a request of the reverse-image attempt
\* is sent only when the Lens attempt gave no candidates, through an empty
\* result or an error; each engine is queried at most once in a call.
C20_LensFirst ==
    /\ \A j \in 1..Len(s_calls) :
          s_calls[j].attempt = "reverse" =>
             /\ j > 1
             /\ \A i \in 1..(j - 1) : s_calls[i].attempt = "lens" => s_calls[i].found = 0
             /\ \A k \in (j + 1)..Len(s_calls) : s_calls[k].attempt = "reverse"
    /\ \A p \in PairsOf(s_calls) :
          IsSearch(s_calls[p[1]]) /\ IsSearch(s_calls[p[2]])
             => s_calls[p[1]].request # s_calls[p[2]].request
    /\ \A j \in 1..Len(s_calls) :
          /\ s_calls[j].request = "google_lens" => s_calls[j].attempt = "lens"
          /\ s_calls[j].request = "google_reverse_image" => s_calls[j].attempt = "reverse"

\* Lens answered with nothing admissible, the reverse-image engine was
\* asked next and found candidates.
C20_Witness ==
    /\ s_pc = "done"
    /\ Len(s_calls) = 4
    /\ s_calls[2].request = "google_lens"
    /\ s_calls[2].outcome = "ok" /\ s_calls[2].found = 0
    /\ s_calls[4].request = "google_reverse_image"
    /\ s_calls[4].found > 0
    /\ s_ret # <<>>

(***************************************************************************)
(* Claims about _take_screenshot (SpecShot)                                *)
(***************************************************************************)
Did(step) == \E k \in 1..Len(t_steps) : t_steps[k] = step

\* the call in progress has written a screenshot
Captured == Did("shot1") \/ Did("shot2")

\* C13: _take_screenshot raises nothing, and the path it returns names a
\* screenshot of the requested url that this very call has written; when the
\* first attempt fails with an error that is no timeout, or times out and
\* the retry fails, it returns None.
C13_ReferenceOnlyWhenCaptured ==
    /\ t_pc # "raised"
    /\ t_pc = "ret" =>
          /\ t_ret # << >> =>
                /\ Captured
                /\ \E f \in t_files :
                      f.path = t_ret[1] /\ f.of = t_url /\ f.call = t_calls
          /\ ~Captured => t_ret = << >>

\* The second call timed out and its retry failed, while output_dir holds
\* the screenshot the first call made of a url of the same safe_name.
C13_Witness ==
    /\ t_pc = "ret"
    /\ t_calls = 2
    /\ Did("goto1_timeout") /\ Did("goto2_error")
    /\ t_ret = << >>
    /\ \E f \in t_files :
          f.call = 1 /\ f.of # t_url /\ safe_name(f.of) = safe_name(t_url)

\* C14: when a call of _take_screenshot has returned, every browser launched
\* so far is closed, whichever way the call went; a call launches at most
\* one browser, and a browser that is open belongs to the call in progress.
C14_SessionsClosed ==
    /\ t_pc \in { "ret", "call", "raised" } =>
          \A k \in 1..Len(t_sessions) : t_sessions[k] = "closed"
    /\ \A p \in PairsOf(t_owner) : t_owner[p[1]] # t_owner[p[2]]
    /\ \A k \in 1..Len(t_sessions) : t_sessions[k] = "open" => t_owner[k] = t_calls

\* new_context or new_page failed in the second call, after a first call
\* that made its screenshot at the retry.
C14_Witness ==
    /\ t_pc = "ret"
    /\ t_calls = 2
    /\ Did("context_error")
    /\ Len(t_sessions) = 2
    /\ \E f \in t_files : f.call = 1
    /\ t_clock >= 30

(***************************************************************************)
(* More claims about scraping (SpecScrape)                                 *)
(***************************************************************************)
\* the urls whose notification has been made, whose fetch has ended, and
\* whose summary has been appended
Notified == Len(w_progress)

Fetched == Len(w_outcomes)

Processed == Len(w_results)

\* C15: the notifier is called once for each url, the i-th call with
\* (i, total, url_i), i from 1 to total in the order of the urls; call i is
\* made before the fetch and the capture of url_i and after url_(i-1) was
\* processed to its end, so at most one url and at most one browser is in
\* progress at any time.
C15_ProgressNotifier ==
    /\ \A k \in 1..Notified : w_progress[k] = << k, Len(w_urls), w_urls[k] >>
    /\ w_pc = "done" => Notified = Len(w_urls)
    /\ Fetched <= Notified
    /\ Processed <= Fetched
    /\ Notified <= Processed + 1
    /\ w_open <= 1
    /\ w_open = 1 => (Notified = Processed + 1 /\ Fetched = Notified)

\* The third url is being captured: its notification was made, the first
\* two urls have their summaries.
C15_Witness ==
    /\ w_pc = "browser"
    /\ w_open = 1
    /\ Notified = 3
    /\ Processed = 2
    /\ w_progress[3] = << 3, 3, w_urls[3] >>

(***************************************************************************)
(* Claims about the extractors (SpecExtract)                               *)
(***************************************************************************)
IsPrefixOf(s, t) == Len(s) <= Len(t) /\ s = SubSeq(t, 1, Len(s))

Extracted == x_pc = "ret" /\ x_result.error = << >>

\* the h1, h2, h3 and p elements that _fetch_and_parse leaves in the page
HeadingElements ==
    { e \in { x_page.elements[k] : k \in 1..Len(x_page.elements) } :
        e.tag \in { "h1", "h2", "h3" } /\ IsContentElement(e) }

ParagraphElements ==
    { e \in { x_page.elements[k] : k \in 1..Len(x_page.elements) } :
        e.tag = "p" /\ IsContentElement(e) }

DescriptionOf(page) ==
    IF page.meta = << >> \/ "content" \notin DOMAIN page.meta[1] THEN ""
    ELSE page.meta[1].content

\* C16: a summary keeps its size bounds and each field is a prefix of what
\* was extracted: main content of at most 5000 characters, at most 15
\* headings, at most 20 paragraphs of at most 500 characters each, and a meta
\* description that is the first 500 characters of the content of the
\* description tag, empty when there is no tag.
C16_SizeBounds ==
    x_pc = "ret" =>
        /\ Len(x_result.main_content) <= 5000
        /\ Len(x_result.headings) <= 15
        /\ Len(x_result.paragraphs) <= 20
        /\ \A k \in 1..Len(x_result.paragraphs) : Len(x_result.paragraphs[k]) <= 500
        /\ Len(x_result.meta_description) <= 500
        /\ x_result.error = << >> =>
            /\ IsPrefixOf(x_result.main_content,
                          CollapseSpaces(CollapseBlankLines(MainText(x_page))))
            /\ \A k \in 1..Len(x_result.headings) :
                 \E e \in HeadingElements : IsPrefixOf(x_result.headings[k], Strip(e.text))
            /\ \A k \in 1..Len(x_result.paragraphs) :
                 \E e \in ParagraphElements :
                    IsPrefixOf(x_result.paragraphs[k], CollapseWhitespace(Strip(e.text)))
            /\ IsPrefixOf(x_result.meta_description, DescriptionOf(x_page))
            /\ \/ Len(x_result.meta_description) = 500
               \/ x_result.meta_description = DescriptionOf(x_page)

\* A page whose description, main text, headings and paragraphs all go
\* beyond the cuts, and a summary that is cut at each of them.
C16_Witness ==
    /\ Extracted
    /\ Len(DescriptionOf(x_page)) >= 600
    /\ Len(x_result.meta_description) = 500
    /\ Len(MainText(x_page)) > 5000
    /\ Len(x_result.main_content) = 5000
    /\ Len(x_result.paragraphs) = 20
    /\ Cardinality(ParagraphElements) > 20
    /\ \E k \in 1..20 : Len(x_result.paragraphs[k]) = 500

\* C17: without a <title> element the title is the host of the requested
\* url as it is written in the url; with one it is the trimmed text of the
\* element.
C17_Title ==
    Extracted =>
        IF x_page.title = << >>
        THEN x_result.title = urlparse(x_url).netloc
        ELSE /\ x_result.title = Strip(x_page.title[1])
             /\ x_result.title = "" \/ (~IsSpace(CharAt(x_result.title, 1))
                                        /\ ~IsSpace(CharAt(x_result.title, Len(x_result.title))))
             /\ \E a \in 0..Len(x_page.title[1]) : \E b \in 0..Len(x_page.title[1]) :
                  /\ SubSeq(x_page.title[1], a + 1, Len(x_page.title[1]) - b) = x_result.title
                  /\ \A k \in (1..a) \cup ((Len(x_page.title[1]) - b + 1)..Len(x_page.title[1])) :
                        IsSpace(CharAt(x_page.title[1], k))

\* A page without a title whose summary is titled with the host, and (in
\* another call) a page whose title had white space around it.
C17_Witness ==
    /\ Extracted
    /\ x_page.title = << >>
    /\ x_url = "https://www.Beta-shop.org/w/1"
    /\ x_result.title = "www.Beta-shop.org"

(***************************************************************************)
(* More claims about the admission filter (SpecFilter)                     *)
(***************************************************************************)
\* C19: the filter accepts a url only if it is absolute with scheme http or
\* https; a url with another scheme, or without a host, is rejected.
C19_SchemeAndHost ==
    (f_pc = "ret" /\ f_ret) =>
        /\ urlparse(f_url).scheme \in { "http", "https" }
        /\ urlparse(f_url).netloc # ""

(***************************************************************************)
(* More claims about the Lens parser (Spec)                                *)
(***************************************************************************)
\* the raw items of a response in the order of enumeration, each with its
\* tier, its index in the tier's list and the url the tier reads from it
RawOfTier(tier, items) ==
    [i \in 1..Len(items) |->
        [origin |-> << tier, i >>,
         url |-> IF tier = 1 THEN Or(Get(items[i], "link", ""), Get(items[i], "source", ""))
                 ELSE IF tier = 3
                      THEN Or(Get(items[i], "link", ""),
                              Get(Get(items[i], "source", EmptyDict).v, "link", ""))
                 ELSE Get(items[i], "link", "")]]

RawItems(d) ==
    RawOfTier(1, Get(d, "shopping_results", <<>>))
    \o RawOfTier(2, Get(d, "visual_matches", <<>>))
    \o RawOfTier(3, IF Get(d, "knowledge_graph", PyList(<<>>)).py = "list"
                    THEN Get(d, "knowledge_graph", PyList(<<>>)).v ELSE <<>>)
    \o RawOfTier(4, TextResultsOf(d))

\* the item passes every test of the filter but the one on the seen hosts
PassesAlone(item) == item.url # "" /\ _is_valid_result_url(item.url, {})

SameHost(a, b) == DomainOf(a.url) = DomainOf(b.url)

Admitted ==
    { shopping_results[k].origin : k \in 1..Len(shopping_results) }
    \cup { other_results[k].origin : k \in 1..Len(other_results) }

\* C18: of the raw items that share a host and pass the rest of the filter,
\* only the first in the order of enumeration (tier 1, 2, 3, 4, list order
\* within a tier) is admitted; every later one is dropped, a shopping
\* result included.
C18_FirstWins ==
    r_pc = "ret" =>
        \A k \in 1..Len(RawItems(data)) :
            RawItems(data)[k].origin \in Admitted =>
                \A j \in 1..(k - 1) :
                    PassesAlone(RawItems(data)[j]) =>
                        ~SameHost(RawItems(data)[j], RawItems(data)[k])

\* C21: the first navigation of a call waits for network idle with a
\* timeout of 30 s; a second navigation (DOM content loaded, 15 s) is made
\* only after the first attempt timed out, and a call makes no more than
\* two navigations.
C21_TwoNavigations ==
    /\ Len(t_navs) <= 2
    /\ Len(t_navs) >= 1 => t_navs[1] = [wait_until |-> "networkidle", timeout |-> 30000]
    /\ Len(t_navs) = 2 =>
         /\ t_navs[2] = [wait_until |-> "domcontentloaded", timeout |-> 15000]
         /\ Did("goto1_timeout") \/ Did("shot1_timeout")
    /\ (Did("goto1_error") \/ Did("shot1_error")) => Len(t_navs) = 1

\* A call whose first navigation timed out has made its second navigation
\* and returned.
C21_Witness ==
    /\ t_pc = "ret"
    /\ Did("goto1_timeout")
    /\ Len(t_navs) = 2

(***************************************************************************)
(* More claims about the extractors (SpecExtract)                          *)
(***************************************************************************)
\* the positions in the page of the heading and paragraph elements that
\* _fetch_and_parse leaves
HeadingPositions ==
    { k \in 1..Len(x_page.elements) : x_page.elements[k] \in HeadingElements }

ParagraphPositions ==
    { k \in 1..Len(x_page.elements) : x_page.elements[k] \in ParagraphElements }

HeadingText(k) == Prefix(Strip(x_page.elements[k].text), 200)

\* C22: the headings of a summary are in document order: when the text of
\* heading A stands before the text of heading B in the summary, A stands
\* before B in the page, whatever their levels.
C22_DocumentOrder ==
    Extracted =>
        \A i \in 1..Len(x_result.headings) : \A j \in (i + 1)..Len(x_result.headings) :
            \E a \in HeadingPositions : \E b \in HeadingPositions :
                /\ a < b
                /\ HeadingText(a) = x_result.headings[i]
                /\ HeadingText(b) = x_result.headings[j]

CollapsedText(k) == CollapseWhitespace(Strip(x_page.elements[k].text))

\* C23: every paragraph of a summary is the trimmed, whitespace-collapsed
\* text, cut at 500 characters, of a <p> whose collapsed text is longer than
\* 50 characters; no paragraph of 50 collapsed characters or fewer appears.
C23_LongParagraphsOnly ==
    Extracted =>
        \A i \in 1..Len(x_result.paragraphs) :
            \E k \in ParagraphPositions :
                /\ Len(CollapsedText(k)) > 50
                /\ x_result.paragraphs[i] = Prefix(CollapsedText(k), 500)

(***************************************************************************)
(* More claims about scraping (SpecScrape), continued                      *)
(***************************************************************************)
\* what _extract_content alone gives for the i-th url
ContentAlone(i) ==
    IF IsFetchError(w_outcomes[i].fetch) THEN FailedContent(w_outcomes[i].fetch)
    ELSE ContentOf[w_urls[i]][w_outcomes[i].fetch]

\* C24: the screenshot of a url is attempted whether or not its extraction
\* failed; a failed capture leaves only the screenshot reference absent: the
\* content fields and error are those of the extraction alone, and the urls
\* after it are processed.
C24_CaptureIndependent ==
    /\ \A i \in 1..Len(w_results) :
          /\ w_outcomes[i].shot \in { "saved", "failed" }
          /\ w_outcomes[i].shot = "failed" => w_results[i].screenshot_path = << >>
          /\ w_outcomes[i].shot = "saved" => w_results[i].screenshot_path # << >>
          /\ w_results[i].title = ContentAlone(i).title
          /\ w_results[i].main_content = ContentAlone(i).main_content
          /\ w_results[i].headings = ContentAlone(i).headings
          /\ w_results[i].paragraphs = ContentAlone(i).paragraphs
          /\ w_results[i].meta_description = ContentAlone(i).meta_description
          /\ w_results[i].error = ContentAlone(i).error
          /\ (w_results[i].error # << >>) <=> IsFetchError(w_outcomes[i].fetch)
    /\ w_pc = "done" => Len(w_results) = Len(w_urls)

\* The first url's extraction failed and its screenshot was saved, the
\* second url's capture failed after a good extraction, and the third url
\* was processed after it.
C24_Witness ==
    /\ w_pc = "done"
    /\ Len(w_results) = 3
    /\ IsFetchError(w_outcomes[1].fetch) /\ w_outcomes[1].shot = "saved"
    /\ w_results[1].screenshot_path # << >>
    /\ ~IsFetchError(w_outcomes[2].fetch) /\ w_outcomes[2].shot = "failed"
    /\ w_results[2].error = << >>
    /\ w_results[2].title # ""
    /\ w_outcomes[3].shot = "saved"

ContentFields == << "title", "meta_description", "headings", "paragraphs", "main_content" >>

FieldOf(content, k) ==
    IF k = 1 THEN << content.title >>
    ELSE IF k = 2 THEN << content.meta_description >>
    ELSE IF k = 3 THEN << content.headings >>
    ELSE IF k = 4 THEN << content.paragraphs >>
    ELSE << content.main_content >>

\* C25: when an extractor raises after the fetch succeeded, the summary is
\* returned with error set, the fields of the extractors that ran before it
\* have the values these computed, and the fields of the one that raised and
\* of the later ones have their empty defaults.
C25_PartialContent ==
    (x_pc = "ret" /\ x_fault # << >> /\ x_fault.step > 0) =>
        /\ x_result.error # << >>
        /\ x_result.url = x_url
        /\ \A k \in 1..5 :
              FieldOf(x_result, k) =
                 IF k < x_fault.step
                 THEN FieldOf(ExtractStep(k, _fetch_and_parse(x_page), x_url, NewContent), k)
                 ELSE FieldOf(NewContent, k)

\* The extractor of the paragraphs raised on a page with a title, a
\* description and headings: these three are in the summary, paragraphs and
\* main content are empty.
C25_Witness ==
    /\ x_pc = "ret"
    /\ x_fault # << >>
    /\ x_fault.step = 4
    /\ x_result.title = "Acme Widgets"
    /\ x_result.meta_description = "All about widgets"
    /\ Len(x_result.headings) = 15
    /\ x_result.paragraphs = << >>
    /\ x_result.main_content = ""
    /\ MainText(x_page) # ""
    /\ x_result.error = << "Error: Invalid IPv6 URL" >>

(***************************************************************************)
(* Claims about the Lens parser on responses with missing fields           *)
(* (SpecAbsent)                                                            *)
(***************************************************************************)
Present(key) == key \in DOMAIN data

ItemOf(key) == IF key = "knowledge_graph" THEN data[key].v[1] ELSE data[key][1]

Has(key, field) == Present(key) /\ field \in DOMAIN ItemOf(key)

\* the text tier reads text_results, or organic_results without it
TextKey == IF Present("text_results") THEN "text_results" ELSE "organic_results"

\* the urls that the fields present in the response offer, tier by tier
OfferedUrls ==
    (IF Has("shopping_results", "link") THEN { "https://shop.net/a" }
     ELSE IF Has("shopping_results", "source") THEN { "https://acme.io/p" } ELSE {})
    \cup (IF Has("visual_matches", "link") THEN { "https://www.ebay.com/itm" } ELSE {})
    \cup (IF Has("knowledge_graph", "link") THEN { "https://wiki.org/w" }
          ELSE IF Has("knowledge_graph", "source") /\ ItemOf("knowledge_graph").source.py = "dict"
          THEN { "https://walmart.com/k" } ELSE {})
    \cup (IF Has(TextKey, "link")
          THEN { IF TextKey = "text_results" THEN "https://news.net/n" ELSE "https://blog.org/k" }
          ELSE {})

\* C26: whatever top-level fields and whatever fields of the items are
\* missing, the parser returns without raising, and what it returns are the
\* candidates of the fields that are present, each with a title.
C26_ToleratesAbsence ==
    /\ r_pc # "raised"
    /\ r_pc = "ret" =>
         /\ { r_ret[i].url : i \in 1..Len(r_ret) } = OfferedUrls
         /\ Len(r_ret) = Cardinality(OfferedUrls)
         /\ \A i \in 1..Len(r_ret) : r_ret[i].title # ""

(***************************************************************************)
(* Claims about the regrouping of the Lens candidates (SpecSearch)         *)
(***************************************************************************)
\* search_by_image returned the regrouped candidates of the Lens parser
LensPathReturned ==
    s_pc = "done" /\ s_parsed.engine = "google_lens" /\ s_parsed.out # <<>>

\* the place of a returned candidate in the parser's list
RankPlace(r) == CHOOSE k \in 1..Len(s_parsed.out) : s_parsed.out[k] = r

InReturn(r) == \E i \in 1..Len(s_ret) : s_ret[i] = r

\* C28: on the Lens path the parser is called with twice num_results; in
\* what search_by_image returns every candidate on a known shopping host
\* precedes every candidate on another host, each group keeps the parser's
\* order, and the cut to num_results comes after the regrouping: a candidate
\* is left out only when the return is full, one on a shopping host only
\* when the return holds shopping hosts alone, and never while a later
\* candidate of its group is kept.
C28_ListedHostsFirst ==
    LensPathReturned =>
        /\ s_parsed.n = s_n * 2
        /\ \A i \in 1..Len(s_ret) : \E k \in 1..Len(s_parsed.out) : s_parsed.out[k] = s_ret[i]
        /\ \A i, j \in 1..Len(s_ret) :
              i < j =>
                 /\ IsShoppingResult(s_ret[j]) => IsShoppingResult(s_ret[i])
                 /\ IsShoppingResult(s_ret[i]) = IsShoppingResult(s_ret[j])
                       => RankPlace(s_ret[i]) < RankPlace(s_ret[j])
        /\ \A k \in 1..Len(s_parsed.out) :
              ~InReturn(s_parsed.out[k]) =>
                 /\ Len(s_ret) = s_n
                 /\ IsShoppingResult(s_parsed.out[k])
                       => \A i \in 1..Len(s_ret) : IsShoppingResult(s_ret[i])
                 /\ \A m \in (k + 1)..Len(s_parsed.out) :
                       IsShoppingResult(s_parsed.out[m]) = IsShoppingResult(s_parsed.out[k])
                          => ~InReturn(s_parsed.out[m])

\* A shopping_results listing on a host that is not listed was cut, and a
\* visual match on a listed host, ranked after it, was returned.
C28_Witness ==
    /\ LensPathReturned
    /\ \E k \in 1..Len(s_parsed.out), i \in 1..Len(s_ret) :
          /\ s_parsed.out[k].origin[1] = 1
          /\ ~IsShoppingResult(s_parsed.out[k])
          /\ ~InReturn(s_parsed.out[k])
          /\ s_ret[i].origin[1] > 1
          /\ IsShoppingResult(s_ret[i])
          /\ RankPlace(s_ret[i]) > k

(***************************************************************************)
(* Claims about the pipeline of app.py (SpecApp)                           *)
(***************************************************************************)
LastShown == IF a_shown = << >> THEN "" ELSE a_shown[Len(a_shown)]

\* C27: when the search gives no candidate, process_image reports it with a
\* warning and raises nothing, has called neither scraping nor generation in
\* that run, and leaves the processing flag false; scraping and generation
\* are only ever called with candidates.
C27_NoResultsStops ==
    /\ a_pc # "raised"
    /\ LastShown = "warning" =>
          /\ a_pc = "idle"
          /\ a_steps = << "search" >>
          /\ a_local = NoLocals
          /\ ~a_processing
    /\ a_pc \in { "scrape", "generate" } => a_local.search_results # << >>

\* The second run of a session found nothing, after a run that made a
\* presentation.
C27_Witness ==
    /\ a_run = 2
    /\ a_pc = "idle"
    /\ a_shown = << "warning" >>
    /\ a_steps = << "search" >>
    /\ a_made.ppt_path = 1

\* C29: between two runs of the script, when ppt_path is set, search_results
\* and web_data are set too, have the same length, and all three were made
\* by the same call of process_image.
C29_SameRun ==
    (a_pc = "idle" /\ a_ppt_path # << >>) =>
        /\ a_search_results # << >>
        /\ a_web_data # << >>
        /\ Len(a_search_results[1]) = Len(a_web_data[1])
        /\ a_made.search_results = a_made.ppt_path
        /\ a_made.web_data = a_made.ppt_path

\* C30: however process_image ends (presentation made, no candidate, an
\* exception of the search, the scraping or the generation), no exception
\* leaves it and the processing flag is false afterwards, so that
\* process_image only runs in a run of the script in which the button was
\* pressed.
C30_FlagCleared ==
    /\ a_pc # "raised"
    /\ a_pc = "idle" => ~a_processing
    /\ a_pc \in { "search", "scrape", "generate" } => a_pressed /\ a_processing

\* create_presentation raised in a run, and the run ended with the error
\* shown and the flag cleared.
C30_Witness ==
    /\ a_pc = "idle"
    /\ a_steps = << "search", "scrape", "generate" >>
    /\ a_shown = << "error" >>
    /\ ~a_processing

====
